---------------------------- MODULE Spec2Model ----------------------------
(***************************************************************************)
(* Block ingestion pipeline of hive (hidraco/hivemind):                    *)
(*   - SteemClient.stream_blocks, get_blocks_range, __exec, __exec_batch   *)
(*     (src/hive/indexer/steem_client.py)                                  *)
(*   - run, sync_from_checkpoints, sync_from_file, sync_from_steemd,       *)
(*     listen_steemd, process_blocks, process_block                        *)
(*     (src/hive/indexer/core.py)                                          *)
(* Times are in milliseconds (the code's seconds * 1000).                  *)
(***************************************************************************)
EXTENDS Integers, Sequences, FiniteSets, TLC

VARIABLES
    \* ---- the upstream node (steemd) ----
    up_head,        \* head_block_number of the upstream chain
    up_lib,         \* last_irreversible_block_num of the upstream chain
    forkAt,         \* 0: no reorg so far; k: blocks >= k were replaced by a reorg
    \* ---- SteemClient.stream_blocks ----
    start_from, trail_blocks, max_gap,      \* its parameters
    last,           \* last = {num, hash}
    head_num, start_head, lag_secs,
    next_expected,  \* next_expected - time_now: only this difference is used
    slept,          \* time spent in time.sleep since time_now was read
    queue,          \* the trail buffer
    block,          \* the block just fetched by get_block
    yielded,        \* the blocks the generator has yielded, in order
    s_pc,           \* position in stream_blocks
    \* ---- SteemClient.get_blocks_range ----
    lbound, ubound, \* its parameters: [lbound, ubound)
    blocks,         \* blocks = {}: block number -> block
    missing,        \* missing = required - available
    asked,          \* the numbers passed to the last batch call
    result,         \* the list returned
    r_pc,           \* position in get_blocks_range
    \* ---- SteemClient.__exec, __exec_batch and the calls built on them ----
    e_api,          \* the client method called
    e_workers,      \* self._max_workers
    e_tries,        \* tries
    e_sleeps,       \* the arguments of time.sleep so far, in order
    e_log,          \* what each HttpClient call of this call brought back
    e_result,       \* result
    e_pc,           \* position in the call
    \* ---- the store and the orchestrator (core.py) ----
    hive_blocks,    \* the rows of hive_blocks, in the order of their insertion
    is_initial_sync,\* DbState.is_initial_sync()
    files,          \* checkpoints/*.json.lst: [num, first], lines first..num
    o_pc,           \* position in run()
    last_block, last_read, skip_lines,  \* sync_from_checkpoints
    ck_todo,        \* the files the for loop has still to visit, sorted
    remaining,      \* sync_from_file: the lines not yet processed
    sync_lbound, sync_ubound,           \* sync_from_steemd: lbound, ubound
    sync_first,     \* sync_from_steemd: lbound as first computed
    curr_block, last_hash,              \* listen_steemd
    listen_block,   \* listen_steemd: block, as get_block returned it
    cache_gap,      \* Posts.last_id() - CachedPost.last_id()
    in_trx,         \* START TRANSACTION was sent and no COMMIT since
    trx_base,       \* the rows of hive_blocks when the open transaction began
    trx_log,        \* what the open live transaction has done so far
    durable,        \* the rows of hive_blocks that are committed
    \* ---- the community tables (community.py) ----
    accounts,       \* the registered account names; the id is the position
    hive_communities,   \* the rows of hive_communities, in insertion order
    hive_roles,     \* the rows of hive_roles, in insertion order
    c_last,         \* the last block or community op handled and its outcome
    hive_posts,     \* the rows of hive_posts; the id is the position
    hive_subscriptions, \* the rows of hive_subscriptions, in insertion order
    hive_flags,     \* the rows of hive_flags, in insertion order
    c_op,           \* the custom_json community op being handled, or none
    post_check,     \* the last call of Community.is_post_valid and its result
    \* ---- process_block (core.py) ----
    b_block,        \* block, the argument of process_block
    b_tx, b_op,     \* the positions of the two for loops
    account_names, comment_ops, json_ops, delete_ops, dirty_urls,
    accounts_dirty, \* the names passed to Accounts.dirty so far
    b_calls,        \* the calls made after the loops, in order
    b_result,       \* what process_block returned
    b_pc,           \* position in process_block
    \* ---- cache_missing_posts (core.py) ----
    hive_posts_cache,   \* the post ids that have a row in hive_posts_cache
    unfetchable,    \* the post ids the upstream node returns no content for
    last_id_live,   \* whether Posts.last_id() passes over deleted posts
    cm_rounds,      \* the calls of cache_missing_posts so far, less one
    cm_pc,          \* position in cache_missing_posts
    \* ---- the batches of an initial sync, in block numbers (core.py) ----
    bt_mode,        \* "file": sync_from_file; "steemd": sync_from_steemd
    bt_next,        \* the first block not yet handed on (lbound)
    bt_end,         \* the block after the last one to hand on (ubound)
    bt_batch        \* the blocks [lo, hi) of the last process_blocks call

upVars == <<up_head, up_lib, forkAt>>
streamVars == <<start_from, trail_blocks, max_gap, last, head_num, start_head,
                lag_secs, next_expected, slept, queue, block, yielded, s_pc>>
rangeVars == <<lbound, ubound, blocks, missing, asked, result, r_pc>>
execVars == <<e_api, e_workers, e_tries, e_sleeps, e_log, e_result, e_pc>>
ckVars == <<files, last_block, last_read, skip_lines, ck_todo, remaining>>
syncVars == <<sync_lbound, sync_ubound, sync_first>>
listenVars == <<curr_block, last_hash, listen_block>>
trxVars == <<in_trx, trx_base, trx_log, durable>>
orchVars == <<hive_blocks, is_initial_sync, o_pc, ckVars, syncVars, listenVars,
             cache_gap, trxVars>>
opVars == <<hive_posts, hive_subscriptions, hive_flags, c_op, post_check>>
commVars == <<accounts, hive_communities, hive_roles, c_last, opVars>>
blockVars == <<b_block, b_tx, b_op, account_names, comment_ops, json_ops,
               delete_ops, dirty_urls, accounts_dirty, b_calls, b_result, b_pc>>
cacheVars == <<hive_posts_cache, unfetchable, last_id_live, cm_rounds, cm_pc>>
batchVars == <<bt_mode, bt_next, bt_end, bt_batch>>
indexVars == <<blockVars, cacheVars, batchVars>>
vars == <<upVars, streamVars, rangeVars, execVars, orchVars, commVars, indexVars>>

\* ------------------------------------------------------------------ bounds
MaxHead == 4        \* upstream produces blocks up to this number
MaxStart == 2       \* stream_blocks: largest start_from tried
MaxTrail == 2       \* stream_blocks: largest trail_blocks tried
MaxGap == 2         \* stream_blocks: largest max_gap tried
MaxElapse == 1      \* slots that may pass between two reads of the clock
MaxLag == 500       \* an empty fetch is retried only while lag_secs is below this
MaxRange == 2       \* get_blocks_range: largest ubound - lbound tried
MaxResp == 2        \* get_blocks_range: longest batch response tried
MaxTries == 3       \* __exec: failures tried in a row
MaxWorkers == 2     \* largest max_workers tried
MaxChain == 6       \* orchestrator: upstream produces blocks up to this number
MaxCk == 3          \* largest checkpoint file number tried
ChunkSize == 2      \* sync_from_file: blocks per chunk (250 in the code)
RangeSize == 2      \* sync_from_steemd: blocks per range (1000 in the code)
ListenAbortGap == 3 \* listen_steemd: the gap that ends listen mode (25 in the code)
MaxMissing == 1

\* ------------------------------------------------------- program constants
SlotMs == 3000      \* next_expected += 3
LagStep == 250      \* lag_secs + 0.25
LagCap == 3000      \* min(3, ...)
LagDecay == 1       \* lag_secs - 0.001
RetrySleep == 500   \* time.sleep(0.5)
ListenTrail == 2    \* listen_steemd(trail_blocks=2), as run() calls it

Min(a, b) == IF a < b THEN a ELSE b
Max(a, b) == IF a > b THEN a ELSE b

\* ---------------------------------------------------------------- upstream
Empty == [num |-> 0]

\* The variant of block n on the upstream chain forked at f: a reorg at height
\* k replaces every block from k on.
VariantAt(f, n) == IF f # 0 /\ n >= f THEN 1 ELSE 0

\* block_id stands for the hash; its first 8 hex digits are the block number.
BlockId(f, n) == <<n, VariantAt(f, n)>>

\* The block numbered n of the upstream chain forked at f.
ChainBlock(f, n) ==
    [num |-> n, block_id |-> BlockId(f, n), previous |-> BlockId(f, n - 1)]

\* get_block(n): the block, or empty for a block not yet produced.
GetBlock(n) == IF n >= 1 /\ n <= up_head THEN ChainBlock(forkAt, n) ELSE Empty

\* int(block['block_id'][:8], base=16)
BlockNum(b) == b.block_id[1]

\* The upstream produces its next block.
UpProduce ==
    /\ up_head < MaxHead
    /\ up_head' = up_head + 1
    /\ UNCHANGED <<up_lib, forkAt>>

\* The upstream switches to another fork: every block above the last
\* irreversible one, from some height k on, is replaced.
UpReorg ==
    /\ forkAt = 0
    /\ \E k \in (up_lib + 1)..up_head : forkAt' = k
    /\ UNCHANGED <<up_head, up_lib>>

\* ------------------------------------------ parts not running in a specification
RangeIdle ==
    /\ lbound = 1 /\ ubound = 1
    /\ blocks = <<>> /\ missing = {} /\ asked = {} /\ result = <<>>
    /\ r_pc = "idle"

NoHash == <<0, 0>>

OrchLocalsIdle ==
    /\ is_initial_sync = FALSE /\ files = {}
    /\ o_pc = "idle"
    /\ last_block = 0 /\ last_read = 0 /\ skip_lines = 0
    /\ ck_todo = <<>> /\ remaining = <<>>
    /\ sync_lbound = 0 /\ sync_ubound = 0 /\ sync_first = 0
    /\ curr_block = 0 /\ last_hash = NoHash /\ listen_block = Empty
    /\ cache_gap = 0
    /\ in_trx = FALSE /\ trx_base = <<>> /\ trx_log = <<>>

OrchIdle ==
    /\ hive_blocks = <<>>
    /\ durable = hive_blocks
    /\ OrchLocalsIdle

ExecIdle ==
    /\ e_api = "none" /\ e_workers = 1 /\ e_tries = 0
    /\ e_sleeps = <<>> /\ e_log = <<>> /\ e_result = "none"
    /\ e_pc = "idle"

StreamIdle ==
    /\ start_from = 1 /\ trail_blocks = 0 /\ max_gap = 0
    /\ last = [num |-> 0, hash |-> BlockId(0, 0)]
    /\ head_num = 0 /\ start_head = 0 /\ lag_secs = 0
    /\ next_expected = 0 /\ slept = 0
    /\ queue = <<>> /\ block = Empty /\ yielded = <<>>
    /\ s_pc = "idle"

UpIdle == up_head = 0 /\ up_lib = 0 /\ forkAt = 0

NoOp == [kind |-> "none", ok |-> TRUE]

\* no custom_json op is being handled
NoCommunityOp == [actor |-> <<>>, raw |-> [is_list |-> FALSE, elems |-> <<>>]]

\* is_post_valid has not been called
NoPostCheck == [community |-> <<>>, author |-> <<>>, parent_author |-> <<>>,
                valid |-> FALSE]

CommIdle ==
    /\ accounts = <<>> /\ hive_communities = <<>> /\ hive_roles = <<>>
    /\ c_last = NoOp
    /\ hive_posts = <<>> /\ hive_subscriptions = <<>> /\ hive_flags = <<>>
    /\ c_op = NoCommunityOp
    /\ post_check = NoPostCheck

\* process_block has not been called
NoBlock == [num |-> 0, block_id |-> <<0, 0>>, previous |-> <<0, 0>>,
            transactions |-> <<>>]

BlockIdle ==
    /\ b_block = NoBlock /\ b_tx = 0 /\ b_op = 0
    /\ account_names = {} /\ comment_ops = <<>> /\ json_ops = <<>>
    /\ delete_ops = <<>> /\ dirty_urls = {} /\ accounts_dirty = {}
    /\ b_calls = <<>> /\ b_result = {} /\ b_pc = "idle"

BatchIdle ==
    /\ bt_mode = "idle" /\ bt_next = 0 /\ bt_end = 0
    /\ bt_batch = [lo |-> 0, hi |-> 0]

CacheIdle ==
    /\ hive_posts_cache = {} /\ unfetchable = {} /\ last_id_live = FALSE
    /\ cm_rounds = 0 /\ cm_pc = "idle"

\* ----------------------------------------------------------- stream_blocks
StreamInit ==
    /\ start_from \in 2..MaxStart
    /\ trail_blocks \in 0..MaxTrail
    /\ max_gap \in 0..MaxGap
    /\ up_head \in (start_from - 1)..(start_from + 1)
    /\ up_lib = 0
    /\ forkAt = 0
    /\ last = [num |-> start_from - 1, hash |-> BlockId(0, start_from - 1)]
    /\ head_num = up_head
    /\ start_head = up_head
    /\ next_expected = 0
    /\ slept = 0
    /\ lag_secs = 0
    /\ queue = <<>>
    /\ block = Empty
    /\ yielded = <<>>
    /\ s_pc = "top"
    /\ RangeIdle
    /\ ExecIdle
    /\ OrchIdle
    /\ CommIdle
    /\ BlockIdle /\ CacheIdle /\ BatchIdle

\* assert not last['num'] > head_num; time_now = time.time(): the time
\* slept, and any further time, has passed since the last reading.
StreamTop ==
    /\ s_pc = "top"
    /\ \E k \in 0..MaxElapse :
          next_expected' = next_expected - (slept + k * SlotMs)
    /\ slept' = 0
    /\ s_pc' = IF last.num > head_num THEN "assert_failed" ELSE "slots"
    /\ UNCHANGED <<start_from, trail_blocks, max_gap, last, head_num, start_head,
                   lag_secs, queue, block, yielded>>

GapTooLargeOffByOne(head, lastnum, maxgap) == head - lastnum > maxgap + 1

\* gap = head_num - last['num']; if gap > max_gap
GapTooLarge(head, lastnum, maxgap) == head - lastnum > maxgap

\* one round of: while time_now >= next_expected + lag_secs
StreamSlot ==
    /\ s_pc = "slots"
    /\ 0 >= next_expected + lag_secs
    /\ head_num' = head_num + 1
    /\ next_expected' = next_expected + SlotMs
    /\ s_pc' = IF GapTooLarge(head_num', last.num, max_gap)
                 THEN "gap_return" ELSE "slots"
    /\ UNCHANGED <<start_from, trail_blocks, max_gap, last, start_head, lag_secs,
                   slept, queue, block, yielded>>

CaughtUpNever(head, lastnum) == FALSE

\* if head_num == last['num']
CaughtUp(head, lastnum) == head = lastnum

\* the while loop ends; if caught up, await head advance:
\* time.sleep(next_expected + lag_secs - time_now)
StreamCaughtUp ==
    /\ s_pc = "slots"
    /\ 0 < next_expected + lag_secs
    /\ IF CaughtUp(head_num, last.num)
         THEN /\ slept' = next_expected + lag_secs
              /\ head_num' = head_num + 1
              /\ next_expected' = next_expected + SlotMs
         ELSE UNCHANGED <<slept, head_num, next_expected>>
    /\ s_pc' = "fetch"
    /\ UNCHANGED <<start_from, trail_blocks, max_gap, last, start_head, lag_secs,
                   queue, block, yielded>>

\* block = self.get_block(last['num'] + 1)
StreamFetch ==
    /\ s_pc = "fetch"
    /\ block' = GetBlock(last.num + 1)
    /\ s_pc' = "got"
    /\ UNCHANGED <<start_from, trail_blocks, max_gap, last, head_num, start_head,
                   lag_secs, next_expected, slept, queue, yielded>>

RaiseLagUncapped(lag) == lag + LagStep

\* lag_secs = min(3, lag_secs + 0.25)
RaiseLag(lag) == Min(LagCap, lag + LagStep)

\* lag_secs = max(0, lag_secs - 0.001)
LowerLag(lag) == Max(0, lag - LagDecay)

\* if not block: raise the lag, sleep, retry the same number
StreamEmpty ==
    /\ s_pc = "got"
    /\ block = Empty
    /\ lag_secs' = RaiseLag(lag_secs)
    /\ slept' = slept + RetrySleep
    /\ s_pc' = "top"
    /\ UNCHANGED <<start_from, trail_blocks, max_gap, last, head_num, start_head,
                   next_expected, queue, block, yielded>>

LinkedByNumber(hash, b) == hash[1] = b.previous[1]

LinkedAlways(hash, b) == TRUE

\* last['hash'] == block['previous']
Linked(hash, b) == hash = b.previous

\* if block doesn't link, we're forked
StreamFork ==
    /\ s_pc = "got"
    /\ block # Empty
    /\ ~Linked(last.hash, block)
    /\ lag_secs' = LowerLag(lag_secs)
    /\ last' = [last EXCEPT !.num = last.num + 1]
    /\ s_pc' = IF queue # <<>> THEN "fork_return" ELSE "fork_raise"
    /\ UNCHANGED <<start_from, trail_blocks, max_gap, head_num, start_head,
                   next_expected, slept, queue, block, yielded>>

MustYieldEarly(q, trail) == Len(q) >= trail

\* if len(queue) > trail_blocks
MustYield(q, trail) == Len(q) > trail

\* the block links: adjust the schedule, buffer it, yield the oldest.
\* miss_secs comes from the timestamps of the upstream's blocks.
StreamAccept ==
    /\ s_pc = "got"
    /\ block # Empty
    /\ Linked(last.hash, block)
    /\ lag_secs' = LowerLag(lag_secs)
    /\ last' = [num |-> last.num + 1, hash |-> block.block_id]
    /\ \E miss_secs \in {0, SlotMs} :
          next_expected' = IF miss_secs # 0 /\ last.num + 1 >= start_head
                             THEN next_expected + miss_secs ELSE next_expected
    /\ LET q == Append(queue, block) IN
          IF MustYield(q, trail_blocks)
            THEN /\ yielded' = Append(yielded, Head(q))
                 /\ queue' = Tail(q)
                 /\ s_pc' = "yielded"
            ELSE /\ queue' = q
                 /\ s_pc' = "top"
                 /\ UNCHANGED yielded
    /\ UNCHANGED <<start_from, trail_blocks, max_gap, head_num, start_head,
                   slept, block>>

\* the consumer asks for the next block
StreamResume ==
    /\ s_pc = "yielded"
    /\ s_pc' = "top"
    /\ UNCHANGED <<start_from, trail_blocks, max_gap, last, head_num, start_head,
                   lag_secs, next_expected, slept, queue, block, yielded>>

StreamUpReorg ==
    /\ forkAt = 0
    /\ \E k \in 1..up_head : forkAt' = k
    /\ UNCHANGED <<up_head, up_lib>>

StreamNext ==
    \/ StreamTop /\ UNCHANGED <<upVars, rangeVars, execVars, orchVars, commVars, indexVars>>
    \/ StreamSlot /\ UNCHANGED <<upVars, rangeVars, execVars, orchVars, commVars, indexVars>>
    \/ StreamCaughtUp /\ UNCHANGED <<upVars, rangeVars, execVars, orchVars, commVars, indexVars>>
    \/ StreamFetch /\ UNCHANGED <<upVars, rangeVars, execVars, orchVars, commVars, indexVars>>
    \/ lag_secs < MaxLag /\ StreamEmpty
         /\ UNCHANGED <<upVars, rangeVars, execVars, orchVars, commVars, indexVars>>
    \/ StreamFork /\ UNCHANGED <<upVars, rangeVars, execVars, orchVars, commVars, indexVars>>
    \/ StreamAccept /\ UNCHANGED <<upVars, rangeVars, execVars, orchVars, commVars, indexVars>>
    \/ StreamResume /\ UNCHANGED <<upVars, rangeVars, execVars, orchVars, commVars, indexVars>>
    \/ UpProduce /\ UNCHANGED <<streamVars, rangeVars, execVars, orchVars, commVars, indexVars>>
    \/ StreamUpReorg /\ UNCHANGED <<streamVars, rangeVars, execVars, orchVars, commVars, indexVars>>

SpecStream == StreamInit /\ [][StreamNext]_vars

\* stream_blocks from block 2 on an upstream that stays one block ahead at
\* most, so that fetches come back empty as often as the lag allows.
LagInit ==
    /\ StreamInit
    /\ start_from = 2
    /\ trail_blocks = 0

LagNext ==
    \/ StreamTop /\ UNCHANGED <<upVars, rangeVars, execVars, orchVars, commVars, indexVars>>
    \/ StreamSlot /\ UNCHANGED <<upVars, rangeVars, execVars, orchVars, commVars, indexVars>>
    \/ StreamCaughtUp /\ UNCHANGED <<upVars, rangeVars, execVars, orchVars, commVars, indexVars>>
    \/ StreamFetch /\ UNCHANGED <<upVars, rangeVars, execVars, orchVars, commVars, indexVars>>
    \/ StreamEmpty /\ UNCHANGED <<upVars, rangeVars, execVars, orchVars, commVars, indexVars>>
    \/ StreamAccept /\ UNCHANGED <<upVars, rangeVars, execVars, orchVars, commVars, indexVars>>
    \/ StreamResume /\ UNCHANGED <<upVars, rangeVars, execVars, orchVars, commVars, indexVars>>
    \/ up_head < 3 /\ UpProduce
         /\ UNCHANGED <<streamVars, rangeVars, execVars, orchVars, commVars, indexVars>>

SpecLag == LagInit /\ [][LagNext]_vars


\* -------------------------------------------------------- get_blocks_range
\* block_nums = range(lbound, ubound); required = set(block_nums)
Required(lo, hi) == lo..(hi - 1)

\* What a batch get_block call may bring back for one request: a block of
\* either fork, with any number near the range, or an item with no block_id.
Invalid == [error |-> "invalid"]

BatchItems(lo, hi) ==
    {[num |-> n, block_id |-> <<n, v>>, previous |-> <<n - 1, v>>] :
        n \in (lo - 1)..hi, v \in {0, 1}} \cup {Invalid}

BatchResponses(lo, hi) ==
    UNION {[1..k -> BatchItems(lo, hi)] : k \in 0..MaxResp}

\* blocks[num] = block
Put(bs, n, b) == [k \in (DOMAIN bs) \cup {n} |-> IF k = n THEN b ELSE bs[k]]

\* the for loop over one batch response
RECURSIVE StoreAll(_, _)
StoreAll(bs, resp) ==
    IF resp = <<>> THEN bs
    ELSE LET b == Head(resp) IN
         IF "block_id" \notin DOMAIN b
           THEN StoreAll(bs, Tail(resp))
           ELSE StoreAll(Put(bs, BlockNum(b), b), Tail(resp))

StillMissingAll(required, bs) == required

\* available = set(blocks.keys()); missing = required - available
StillMissing(required, bs) == required \ DOMAIN bs

RangeInit ==
    /\ lbound \in 1..2
    /\ ubound \in lbound..(lbound + MaxRange)
    /\ blocks = <<>>
    /\ missing = StillMissing(Required(lbound, ubound), <<>>)
    /\ asked = {}
    /\ result = <<>>
    /\ r_pc = "loop"
    /\ UpIdle
    /\ StreamIdle
    /\ ExecIdle
    /\ OrchIdle
    /\ CommIdle
    /\ BlockIdle /\ CacheIdle /\ BatchIdle

\* one round of: while missing
RangeRound ==
    /\ r_pc = "loop"
    /\ missing # {}
    /\ asked' = missing
    /\ \E resp \in BatchResponses(lbound, ubound) :
          blocks' = StoreAll(blocks, resp)
    /\ missing' = StillMissing(Required(lbound, ubound), blocks')
    /\ UNCHANGED <<lbound, ubound, result, r_pc>>

\* return [blocks[x] for x in block_nums]
RangeReturn ==
    /\ r_pc = "loop"
    /\ missing = {}
    /\ result' = [i \in 1..(ubound - lbound) |-> blocks[lbound + i - 1]]
    /\ r_pc' = "done"
    /\ UNCHANGED <<lbound, ubound, blocks, missing, asked>>

RangeNext ==
    \/ RangeRound /\ UNCHANGED <<upVars, streamVars, execVars, orchVars, commVars, indexVars>>
    \/ RangeReturn /\ UNCHANGED <<upVars, streamVars, execVars, orchVars, commVars, indexVars>>

SpecRange == RangeInit /\ [][RangeNext]_vars


\* ------------------------------------------------------ __exec, __exec_batch
\* The calls of the client: get_block, get_accounts and _gdgp go through
\* __exec; get_content_batch and get_blocks_range through __exec_batch.
Apis == {"get_block", "get_accounts", "_gdgp", "get_content_batch",
         "get_blocks_range"}

IsBatch(api) == api \in {"get_content_batch", "get_blocks_range"}

\* the method name passed to the HttpClient
Method(api) ==
    CASE api = "get_content_batch" -> "get_content"
      [] api = "get_blocks_range" -> "get_block"
      [] api = "_gdgp" -> "get_dynamic_global_properties"
      [] OTHER -> api

\* What one HttpClient call brings back: a well-formed result, a non-empty
\* result of the wrong shape, an empty result, or an exception.
Outcomes == {"ok", "malformed", "empty", "RPCError", "AssertionError"}

Raises(o) == o \in {"RPCError", "AssertionError"}

ExecRetriesEvenGetBlock(method, o) == Raises(o) \/ o = "empty"

\* __exec: except (AssertionError, RPCError), with
\* assert result unless method == 'get_block'
ExecRetries(method, o) == Raises(o) \/ (method # "get_block" /\ o = "empty")

BackoffFlat(tries) == 100

\* time.sleep(tries / 10)
Backoff(tries) == tries * 100

ExecInit ==
    /\ e_api \in Apis
    /\ e_workers \in 1..MaxWorkers
    /\ e_tries = 0
    /\ e_sleeps = <<>>
    /\ e_log = <<>>
    /\ e_result = "none"
    /\ e_pc = "call"
    /\ UpIdle
    /\ StreamIdle
    /\ RangeIdle
    /\ OrchIdle
    /\ CommIdle
    /\ BlockIdle /\ CacheIdle /\ BatchIdle

\* __exec: one pass of its loop that fails and is retried
ExecRetry ==
    /\ e_pc = "call"
    /\ ~IsBatch(e_api)
    /\ e_tries < MaxTries
    /\ \E o \in Outcomes :
          /\ ExecRetries(Method(e_api), o)
          /\ e_log' = Append(e_log, o)
    /\ e_tries' = e_tries + 1
    /\ e_sleeps' = Append(e_sleeps, Backoff(e_tries'))
    /\ UNCHANGED <<e_api, e_workers, e_result, e_pc>>

\* __exec: the pass that breaks out of the loop and returns result
ExecBreak ==
    /\ e_pc = "call"
    /\ ~IsBatch(e_api)
    /\ \E o \in Outcomes :
          /\ ~ExecRetries(Method(e_api), o)
          /\ e_log' = Append(e_log, o)
          /\ e_result' = o
    /\ e_pc' = "checked"
    /\ UNCHANGED <<e_api, e_workers, e_tries, e_sleeps>>

\* __exec_batch_with_retry (max_workers == 1): a failed pass
BatchRetry ==
    /\ e_pc = "call"
    /\ IsBatch(e_api)
    /\ e_workers = 1
    /\ e_tries < MaxTries
    /\ \E o \in Outcomes :
          /\ Raises(o)
          /\ e_log' = Append(e_log, o)
    /\ e_tries' = e_tries + 1
    /\ e_sleeps' = Append(e_sleeps, Backoff(e_tries'))
    /\ UNCHANGED <<e_api, e_workers, e_result, e_pc>>

\* __exec_batch_with_retry: the pass that returns the list
BatchReturn ==
    /\ e_pc = "call"
    /\ IsBatch(e_api)
    /\ e_workers = 1
    /\ \E o \in Outcomes :
          /\ ~Raises(o)
          /\ e_log' = Append(e_log, o)
          /\ e_result' = o
    /\ e_pc' = "checked"
    /\ UNCHANGED <<e_api, e_workers, e_tries, e_sleeps>>

\* __exec_batch with max_workers > 1: exec_multi_with_futures, called once
\* outside any try
BatchFutures ==
    /\ e_pc = "call"
    /\ IsBatch(e_api)
    /\ e_workers > 1
    /\ \E o \in Outcomes :
          /\ e_log' = Append(e_log, o)
          /\ e_result' = o
          /\ e_pc' = IF Raises(o) THEN "raised" ELSE "checked"
    /\ UNCHANGED <<e_api, e_workers, e_tries, e_sleeps>>

\* The assertions on the shape of the response, made after __exec or
\* __exec_batch has returned: get_accounts (len), _gdgp ('time'),
\* get_content_batch ('author'); get_block has none and get_blocks_range skips
\* a block without block_id.
ShapeAsserted(api) == api \in {"get_accounts", "_gdgp", "get_content_batch"}

ExecCheck ==
    /\ e_pc = "checked"
    /\ e_pc' = IF ShapeAsserted(e_api) /\ e_result = "malformed"
                 THEN "raised" ELSE "returned"
    /\ UNCHANGED <<e_api, e_workers, e_tries, e_sleeps, e_log, e_result>>

ExecNext ==
    \/ ExecRetry /\ UNCHANGED <<upVars, streamVars, rangeVars, orchVars, commVars, indexVars>>
    \/ ExecBreak /\ UNCHANGED <<upVars, streamVars, rangeVars, orchVars, commVars, indexVars>>
    \/ BatchRetry /\ UNCHANGED <<upVars, streamVars, rangeVars, orchVars, commVars, indexVars>>
    \/ BatchReturn /\ UNCHANGED <<upVars, streamVars, rangeVars, orchVars, commVars, indexVars>>
    \/ BatchFutures /\ UNCHANGED <<upVars, streamVars, rangeVars, orchVars, commVars, indexVars>>
    \/ ExecCheck /\ UNCHANGED <<upVars, streamVars, rangeVars, orchVars, commVars, indexVars>>

SpecExec == ExecInit /\ [][ExecNext]_vars

\* The client is called again after a call has returned: time_start, then
\* tries = 0 (__exec), or tries = 0 (__exec_batch_with_retry).
ExecNewCall ==
    /\ e_pc = "returned"
    /\ e_api' \in Apis
    /\ e_tries' = 0
    /\ e_sleeps' = <<>>
    /\ e_log' = <<>>
    /\ e_result' = "none"
    /\ e_pc' = "call"
    /\ UNCHANGED e_workers

CallsNext ==
    \/ ExecRetry /\ UNCHANGED <<upVars, streamVars, rangeVars, orchVars, commVars, indexVars>>
    \/ ExecBreak /\ UNCHANGED <<upVars, streamVars, rangeVars, orchVars, commVars, indexVars>>
    \/ BatchRetry /\ UNCHANGED <<upVars, streamVars, rangeVars, orchVars, commVars, indexVars>>
    \/ BatchReturn /\ UNCHANGED <<upVars, streamVars, rangeVars, orchVars, commVars, indexVars>>
    \/ BatchFutures /\ UNCHANGED <<upVars, streamVars, rangeVars, orchVars, commVars, indexVars>>
    \/ ExecCheck /\ UNCHANGED <<upVars, streamVars, rangeVars, orchVars, commVars, indexVars>>
    \/ ExecNewCall /\ UNCHANGED <<upVars, streamVars, rangeVars, orchVars, commVars, indexVars>>

SpecCalls == ExecInit /\ [][CallsNext]_vars


\* ------------------------------------------------------------ the store
\* db_last_block: SELECT MAX(num) FROM hive_blocks, or 0
RECURSIVE MaxNum(_)
MaxNum(rows) ==
    IF rows = <<>> THEN 0
    ELSE Max(rows[Len(rows)].num, MaxNum(SubSeq(rows, 1, Len(rows) - 1)))

db_last_block(rows) == MaxNum(rows)

\* process_block: INSERT INTO hive_blocks (num, hash, prev, ...), num taken
\* from the block_id
process_block(rows, b) ==
    Append(rows, [num |-> BlockNum(b), hash |-> b.block_id, prev |-> b.previous])

\* process_blocks: the blocks of a batch in their order, in one transaction
RECURSIVE process_blocks(_, _)
process_blocks(rows, batch) ==
    IF batch = <<>> THEN rows
    ELSE process_blocks(process_block(rows, Head(batch)), Tail(batch))

\* Posts.register(comment_ops, date) in process_block: the blocks processed
\* may hold new posts, which have no CachedPost until a cache update.
NewPosts(gap) == {gap, Min(gap + 1, MaxMissing)}

\* The rows of blocks 1..n of the chain before any reorg.
StoredChain(n) == process_blocks(<<>>, [i \in 1..n |-> ChainBlock(0, i)])

\* ------------------------------------------------------------ the upstream
\* A block becomes irreversible.
UpIrreversible ==
    /\ up_lib < up_head
    /\ up_lib' = up_lib + 1
    /\ UNCHANGED <<up_head, forkAt>>

OrchUpProduce ==
    /\ up_head < MaxChain
    /\ up_head' = up_head + 1
    /\ UNCHANGED <<up_lib, forkAt>>

\* ------------------------------------------------------------ transactions
CommittedPerBlock(rows, done) == process_blocks(rows, done)

\* process_blocks: query("COMMIT") follows the for loop, so when a block of
\* the batch fails after the blocks `done`, nothing of the batch is committed
CommittedOnFailure(rows, done) == rows

\* The connection of a process that ended inside a transaction is closed
\* without COMMIT: the store is back at what was committed.
Rollback(committed) == committed

\* process_blocks(batch) raising in its block j + 1: START TRANSACTION, the
\* blocks before it processed, the exception leaves run()
BatchFails(batch) ==
    /\ batch # <<>>
    /\ \E j \in 0..(Len(batch) - 1) :
          /\ hive_blocks' = process_blocks(hive_blocks, SubSeq(batch, 1, j))
          /\ durable' = CommittedOnFailure(hive_blocks, SubSeq(batch, 1, j))
    /\ trx_base' = hive_blocks
    /\ in_trx' = TRUE
    /\ o_pc' = "raised"
    /\ UNCHANGED <<is_initial_sync, ckVars, syncVars, listenVars, cache_gap,
                   trx_log>>

\* ---------------------------------------------------- sync_from_checkpoints
\* files = sorted(files, key=lambda f: f[0])
RECURSIVE SortedFiles(_)
SortedFiles(fs) ==
    IF fs = {} THEN <<>>
    ELSE LET f == CHOOSE x \in fs : \A y \in fs : x.num <= y.num
         IN <<f>> \o SortedFiles(fs \ {f})

\* The lines of a checkpoint file: one block per line, first..num.
Lines(f) == [i \in 1..(f.num - f.first + 1) |-> ChainBlock(0, f.first + i - 1)]

\* funcy.seqs.drop(n, seq)
Drop(n, seq) == IF n >= Len(seq) THEN <<>> ELSE SubSeq(seq, n + 1, Len(seq))

\* The directory in the documented format: the file named N holds the blocks
\* prev_N + 1 .. N, prev_N being the number of the file before it (0 for the
\* first).
PrevFileNum(fs, n) ==
    LET lower == {f.num : f \in {g \in fs : g.num < n}} IN
    IF lower = {} THEN 0 ELSE CHOOSE m \in lower : \A k \in lower : k <= m

WellFormedDir(fs) ==
    /\ \A f, g \in fs : f.num = g.num => f = g
    /\ \A f \in fs : f.first = PrevFileNum(fs, f.num) + 1

DirOf(nums) == {[num |-> n, first |-> PrevFileNum({[num |-> m] : m \in nums}, n) + 1] :
                   n \in nums}

SkipNone(lastblock, lastread) == 0

SkipToHead(lastblock, lastread) == lastblock

\* skip_lines = last_block - last_read
SkipLines(lastblock, lastread) == lastblock - lastread

\* last_block = db_last_block(); files = sorted(...); last_read = 0
CkStart ==
    /\ o_pc = "checkpoints"
    /\ last_block' = db_last_block(hive_blocks)
    /\ ck_todo' = SortedFiles(files)
    /\ last_read' = 0
    /\ o_pc' = "ck_loop"
    /\ UNCHANGED <<hive_blocks, is_initial_sync, files, skip_lines, remaining,
                   syncVars, listenVars,
                   cache_gap, trxVars>>

\* for (num, path) in files: a file not above last_block is passed over
CkPassFile ==
    /\ o_pc = "ck_loop"
    /\ ck_todo # <<>>
    /\ ~(last_block < Head(ck_todo).num)
    /\ last_read' = Head(ck_todo).num
    /\ ck_todo' = Tail(ck_todo)
    /\ UNCHANGED <<hive_blocks, is_initial_sync, files, o_pc, last_block,
                   skip_lines, remaining, syncVars, listenVars,
                   cache_gap, trxVars>>

\* if last_block < num: sync_from_file(path, skip_lines): remaining = drop(...)
CkOpenFile ==
    /\ o_pc = "ck_loop"
    /\ ck_todo # <<>>
    /\ last_block < Head(ck_todo).num
    /\ skip_lines' = SkipLines(last_block, last_read)
    /\ remaining' = Drop(skip_lines', Lines(Head(ck_todo)))
    /\ o_pc' = "ck_file"
    /\ UNCHANGED <<hive_blocks, is_initial_sync, files, last_block, last_read,
                   ck_todo, syncVars, listenVars,
                   cache_gap, trxVars>>

\* for batch in partition_all(chunk_size, remaining): process_blocks(batch, True)
CkChunk ==
    /\ o_pc = "ck_file"
    /\ remaining # <<>>
    /\ LET n == Min(ChunkSize, Len(remaining)) IN
          /\ hive_blocks' = process_blocks(hive_blocks, SubSeq(remaining, 1, n))
          /\ remaining' = Drop(n, remaining)
    /\ cache_gap' \in NewPosts(cache_gap)
    /\ durable' = hive_blocks'
    /\ UNCHANGED <<is_initial_sync, files, o_pc, last_block, last_read,
                   skip_lines, ck_todo, syncVars, listenVars,
                   in_trx, trx_base, trx_log>>

\* a block of the chunk fails in process_block
CkChunkFails ==
    /\ o_pc = "ck_file"
    /\ BatchFails(SubSeq(remaining, 1, Min(ChunkSize, Len(remaining))))

\* the file is exhausted: last_block = num; last_read = num
CkFileDone ==
    /\ o_pc = "ck_file"
    /\ remaining = <<>>
    /\ last_block' = Head(ck_todo).num
    /\ last_read' = Head(ck_todo).num
    /\ ck_todo' = Tail(ck_todo)
    /\ o_pc' = "ck_loop"
    /\ UNCHANGED <<hive_blocks, is_initial_sync, files, skip_lines, remaining,
                   syncVars, listenVars,
                   cache_gap, trxVars>>

\* run(): sync_from_checkpoints() has returned; sync_from_steemd() is next
CkDone ==
    /\ o_pc = "ck_loop"
    /\ ck_todo = <<>>
    /\ o_pc' = "sync"
    /\ UNCHANGED <<hive_blocks, is_initial_sync, ckVars, syncVars, listenVars,
                   cache_gap, trxVars>>

\* --------------------------------------------------------- sync_from_steemd
FirstToSyncSkipsOne(head) == head + 2

\* lbound = db_last_block() + 1
FirstToSync(head) == head + 1

\* lbound = db_last_block() + 1; ubound = steemd.last_irreversible_block_num()
SyncStart ==
    /\ o_pc = "sync"
    /\ sync_lbound' = FirstToSync(db_last_block(hive_blocks))
    /\ sync_first' = sync_lbound'
    /\ sync_ubound' = up_lib
    /\ o_pc' = "sync_loop"
    /\ UNCHANGED <<hive_blocks, is_initial_sync, ckVars, listenVars,
                   cache_gap, trxVars>>

\* get_blocks_range(lbound, to): the blocks lbound .. to - 1 of the upstream
BlocksRange(lo, hi) == [i \in 1..(hi - lo) |-> GetBlock(lo + i - 1)]

\* while lbound < ubound: to = min(lbound + 1000, ubound); ...; lbound = to
SyncBatch ==
    /\ o_pc = "sync_loop"
    /\ sync_lbound < sync_ubound
    /\ LET to == Min(sync_lbound + RangeSize, sync_ubound) IN
          /\ hive_blocks' = process_blocks(hive_blocks, BlocksRange(sync_lbound, to))
          /\ sync_lbound' = to
    /\ cache_gap' \in NewPosts(cache_gap)
    /\ durable' = hive_blocks'
    /\ UNCHANGED <<is_initial_sync, o_pc, ckVars, sync_ubound, sync_first,
                   listenVars, in_trx, trx_base, trx_log>>

\* a block of the range fails in process_block
SyncBatchFails ==
    /\ o_pc = "sync_loop"
    /\ sync_lbound < sync_ubound
    /\ BatchFails(BlocksRange(sync_lbound,
                              Min(sync_lbound + RangeSize, sync_ubound)))

\* the loop has ended; if not is_initial_sync: cache_dirty_posts(dirty), which
\* caches the posts of the blocks just processed (CachedPost.update_batch may
\* leave some out); sync_from_steemd returns; in run() the cache build follows
\* it in an initial sync, cache_paidout_posts() otherwise
SyncDone ==
    /\ o_pc = "sync_loop"
    /\ ~(sync_lbound < sync_ubound)
    /\ cache_gap' \in IF is_initial_sync THEN {cache_gap} ELSE 0..cache_gap
    /\ o_pc' = IF is_initial_sync THEN "cache_missing" ELSE "payouts"
    /\ UNCHANGED <<hive_blocks, is_initial_sync, ckVars, syncVars, listenVars,
                   trxVars>>

\* ------------------------------------------------------------ listen_steemd
\* run() is inside listen_steemd
InListen(pc) == pc \in {"listen", "listen_top", "listen_gap", "listen_fetch",
                        "listen_trx"}

\* curr_block = db_last_block(); last_hash = False
ListenStart ==
    /\ o_pc = "listen"
    /\ curr_block' = db_last_block(hive_blocks)
    /\ last_hash' = NoHash
    /\ listen_block' = Empty
    /\ o_pc' = "listen_top"
    /\ UNCHANGED <<hive_blocks, is_initial_sync, ckVars, syncVars,
                   cache_gap, trxVars>>

\* curr_block = curr_block + 1
ListenNext ==
    /\ o_pc = "listen_top"
    /\ curr_block' = curr_block + 1
    /\ o_pc' = "listen_gap"
    /\ UNCHANGED <<hive_blocks, is_initial_sync, ckVars, syncVars, last_hash, listen_block,
                   cache_gap, trxVars>>

\* while trail_blocks: gap = steemd.head_block() - curr_block;
\* if gap >= 25: return -- back in run(), sync_from_steemd() is next
ListenAbortWith(trail) ==
    /\ o_pc = "listen_gap"
    /\ trail # 0
    /\ up_head - curr_block >= ListenAbortGap
    /\ o_pc' = "sync"
    /\ UNCHANGED <<hive_blocks, is_initial_sync, ckVars, syncVars, listenVars,
                   cache_gap, trxVars>>

ListenAbort == ListenAbortWith(ListenTrail)

FarEnoughBehindAlways(gap, trail) == TRUE

\* if gap >= trail_blocks
FarEnoughBehind(gap, trail) == gap >= trail

\* if gap >= trail_blocks: break (with trail_blocks = 0 the loop is not entered)
ListenProceedWith(trail) ==
    /\ o_pc = "listen_gap"
    /\ \/ trail = 0
       \/ /\ up_head - curr_block < ListenAbortGap
          /\ FarEnoughBehind(up_head - curr_block, trail)
    /\ o_pc' = "listen_fetch"
    /\ UNCHANGED <<hive_blocks, is_initial_sync, ckVars, syncVars, listenVars,
                   cache_gap, trxVars>>

ListenProceed == ListenProceedWith(ListenTrail)

Unlinkable(lasthash, b) == lasthash # NoHash /\ lasthash # b.previous

\* block = get_block(curr_block), retried until it is there; a block that does
\* not link to last_hash raises
ListenUnlinkable ==
    /\ o_pc = "listen_fetch"
    /\ GetBlock(curr_block) # Empty
    /\ Unlinkable(last_hash, GetBlock(curr_block))
    /\ o_pc' = "raised"
    /\ UNCHANGED <<hive_blocks, is_initial_sync, ckVars, syncVars, listenVars,
                   cache_gap, trxVars>>

\* last_hash = block['block_id']; query("START TRANSACTION")
ListenBegin ==
    /\ o_pc = "listen_fetch"
    /\ GetBlock(curr_block) # Empty
    /\ ~Unlinkable(last_hash, GetBlock(curr_block))
    /\ listen_block' = GetBlock(curr_block)
    /\ last_hash' = listen_block'.block_id
    /\ in_trx' = TRUE
    /\ trx_base' = hive_blocks
    /\ trx_log' = <<>>
    /\ o_pc' = "listen_trx"
    /\ UNCHANGED <<hive_blocks, is_initial_sync, ckVars, syncVars, curr_block,
                   cache_gap, durable>>

\* dirty = process_block(block)
ListenApply ==
    /\ o_pc = "listen_trx"
    /\ trx_log = <<>>
    /\ hive_blocks' = process_block(hive_blocks, listen_block)
    /\ trx_log' = <<"process_block">>
    /\ UNCHANGED <<is_initial_sync, o_pc, ckVars, syncVars, listenVars,
                   cache_gap, in_trx, trx_base, durable>>

\* cache_dirty_posts, cache_paidout_posts, Accounts.cache_dirty,
\* Accounts.cache_dirty_follows, in this order
LiveFlushes == <<"cache_dirty_posts", "cache_paidout_posts",
                 "Accounts.cache_dirty", "Accounts.cache_dirty_follows">>

CommitsBeforeFlushes(log) == log # <<>>

\* query("COMMIT") comes after process_block and the four flushes
ReadyToCommit(log) == log = <<"process_block">> \o LiveFlushes

ListenFlush ==
    /\ o_pc = "listen_trx"
    /\ trx_log # <<>>
    /\ ~ReadyToCommit(trx_log)
    /\ trx_log' = Append(trx_log, LiveFlushes[Len(trx_log)])
    /\ UNCHANGED <<hive_blocks, is_initial_sync, o_pc, ckVars, syncVars,
                   listenVars, cache_gap, in_trx, trx_base, durable>>

\* query("COMMIT"); back to the top of the loop
ListenCommit ==
    /\ o_pc = "listen_trx"
    /\ ReadyToCommit(trx_log)
    /\ in_trx' = FALSE
    /\ durable' = hive_blocks
    /\ trx_log' = <<>>
    /\ o_pc' = "listen_top"
    /\ UNCHANGED <<hive_blocks, is_initial_sync, ckVars, syncVars, listenVars,
                   cache_gap, trx_base>>

\* process_block or a flush raises inside the transaction; the exception
\* leaves listen_steemd and run()
ListenFails ==
    /\ o_pc = "listen_trx"
    /\ o_pc' = "raised"
    /\ UNCHANGED <<hive_blocks, is_initial_sync, ckVars, syncVars, listenVars,
                   cache_gap, trxVars>>

\* ---------------------------------------------------------------------- run
\* DbState.initialize(); Accounts.load_ids(); if DbState.is_initial_sync()
RunStart ==
    /\ o_pc = "start"
    /\ o_pc' = IF is_initial_sync THEN "checkpoints" ELSE "cache_missing"
    /\ UNCHANGED <<hive_blocks, is_initial_sync, ckVars, syncVars, listenVars,
                   cache_gap, trxVars>>

CacheCompleteAlways(gap) == TRUE

\* gap = last_post_id - last_cached_id; if not gap: return
CacheComplete(gap) == gap = 0

\* cache_missing_posts() with a gap: CachedPost.update_batch(missing), which
\* caches some or all of the missing posts, then cache_missing_posts() again
CacheMissingRound ==
    /\ o_pc = "cache_missing"
    /\ ~CacheComplete(cache_gap)
    /\ cache_gap' \in 0..cache_gap
    /\ UNCHANGED <<hive_blocks, is_initial_sync, o_pc, ckVars, syncVars,
                   listenVars, trxVars>>

\* cache_missing_posts() returns: the cache build of an initial sync is done
\* (FeedCache.rebuild() is next), or the cleanup of a later start (the loop)
CacheMissing ==
    /\ o_pc = "cache_missing"
    /\ CacheComplete(cache_gap)
    /\ o_pc' = IF is_initial_sync THEN "feed_rebuild" ELSE "sync"
    /\ UNCHANGED <<hive_blocks, is_initial_sync, ckVars, syncVars, listenVars,
                   cache_gap, trxVars>>

\* FeedCache.rebuild()
FeedRebuild ==
    /\ o_pc = "feed_rebuild"
    /\ o_pc' = "finish"
    /\ UNCHANGED <<hive_blocks, is_initial_sync, ckVars, syncVars, listenVars,
                   cache_gap, trxVars>>

\* DbState.finish_initial_sync(); then the loop: sync_from_steemd()
FinishInitialSync ==
    /\ o_pc = "finish"
    /\ is_initial_sync' = FALSE
    /\ o_pc' = "sync"
    /\ UNCHANGED <<hive_blocks, ckVars, syncVars, listenVars,
                   cache_gap, trxVars>>

\* cache_paidout_posts(); then listen_steemd()
Payouts ==
    /\ o_pc = "payouts"
    /\ o_pc' = "listen"
    /\ UNCHANGED <<hive_blocks, is_initial_sync, ckVars, syncVars, listenVars,
                   cache_gap, trxVars>>

\* An exception has left run() and ended the process, its connection closed;
\* the process is started again on the same store.
Restart ==
    /\ o_pc = "raised"
    /\ o_pc' = "start"
    /\ hive_blocks' = Rollback(durable)
    /\ in_trx' = FALSE
    /\ trx_log' = <<>>
    /\ UNCHANGED <<is_initial_sync, ckVars, syncVars, listenVars, cache_gap,
                   trx_base, durable>>

\* The process starts on a store holding the first blocks of the chain, all
\* irreversible, with a checkpoint directory in the documented format whose
\* blocks are irreversible too.
Init ==
    /\ is_initial_sync \in BOOLEAN
    /\ \E h \in 0..MaxCk : hive_blocks = StoredChain(h)
    /\ \E nums \in SUBSET (1..MaxCk) :
          files = IF is_initial_sync THEN DirOf(nums) ELSE {}
    /\ up_lib = Max(Max(db_last_block(hive_blocks), 1),
                    PrevFileNum(files, MaxCk + 1))
    /\ up_head = up_lib
    /\ forkAt = 0
    /\ o_pc = "start"
    /\ last_block = 0 /\ last_read = 0 /\ skip_lines = 0
    /\ ck_todo = <<>> /\ remaining = <<>>
    /\ sync_lbound = 0 /\ sync_ubound = 0 /\ sync_first = 0
    /\ curr_block = 0 /\ last_hash = NoHash /\ listen_block = Empty
    /\ cache_gap \in 0..MaxMissing
    /\ in_trx = FALSE /\ trx_base = <<>> /\ trx_log = <<>>
    /\ durable = hive_blocks
    /\ StreamIdle
    /\ RangeIdle
    /\ ExecIdle
    /\ CommIdle
    /\ BlockIdle /\ CacheIdle /\ BatchIdle

Next ==
    \/ RunStart /\ UNCHANGED <<upVars, streamVars, rangeVars, execVars, commVars, indexVars>>
    \/ CkStart /\ UNCHANGED <<upVars, streamVars, rangeVars, execVars, commVars, indexVars>>
    \/ CkPassFile /\ UNCHANGED <<upVars, streamVars, rangeVars, execVars, commVars, indexVars>>
    \/ CkOpenFile /\ UNCHANGED <<upVars, streamVars, rangeVars, execVars, commVars, indexVars>>
    \/ CkChunk /\ UNCHANGED <<upVars, streamVars, rangeVars, execVars, commVars, indexVars>>
    \/ CkChunkFails /\ UNCHANGED <<upVars, streamVars, rangeVars, execVars, commVars, indexVars>>
    \/ CkFileDone /\ UNCHANGED <<upVars, streamVars, rangeVars, execVars, commVars, indexVars>>
    \/ CkDone /\ UNCHANGED <<upVars, streamVars, rangeVars, execVars, commVars, indexVars>>
    \/ SyncStart /\ UNCHANGED <<upVars, streamVars, rangeVars, execVars, commVars, indexVars>>
    \/ SyncBatch /\ UNCHANGED <<upVars, streamVars, rangeVars, execVars, commVars, indexVars>>
    \/ SyncBatchFails /\ UNCHANGED <<upVars, streamVars, rangeVars, execVars, commVars, indexVars>>
    \/ SyncDone /\ UNCHANGED <<upVars, streamVars, rangeVars, execVars, commVars, indexVars>>
    \/ CacheMissingRound /\ UNCHANGED <<upVars, streamVars, rangeVars, execVars, commVars, indexVars>>
    \/ CacheMissing /\ UNCHANGED <<upVars, streamVars, rangeVars, execVars, commVars, indexVars>>
    \/ FeedRebuild /\ UNCHANGED <<upVars, streamVars, rangeVars, execVars, commVars, indexVars>>
    \/ FinishInitialSync /\ UNCHANGED <<upVars, streamVars, rangeVars, execVars, commVars, indexVars>>
    \/ Payouts /\ UNCHANGED <<upVars, streamVars, rangeVars, execVars, commVars, indexVars>>
    \/ ListenStart /\ UNCHANGED <<upVars, streamVars, rangeVars, execVars, commVars, indexVars>>
    \/ ListenNext /\ UNCHANGED <<upVars, streamVars, rangeVars, execVars, commVars, indexVars>>
    \/ ListenAbort /\ UNCHANGED <<upVars, streamVars, rangeVars, execVars, commVars, indexVars>>
    \/ ListenProceed /\ UNCHANGED <<upVars, streamVars, rangeVars, execVars, commVars, indexVars>>
    \/ ListenUnlinkable /\ UNCHANGED <<upVars, streamVars, rangeVars, execVars, commVars, indexVars>>
    \/ ListenBegin /\ UNCHANGED <<upVars, streamVars, rangeVars, execVars, commVars, indexVars>>
    \/ ListenApply /\ UNCHANGED <<upVars, streamVars, rangeVars, execVars, commVars, indexVars>>
    \/ ListenFlush /\ UNCHANGED <<upVars, streamVars, rangeVars, execVars, commVars, indexVars>>
    \/ ListenCommit /\ UNCHANGED <<upVars, streamVars, rangeVars, execVars, commVars, indexVars>>
    \/ ListenFails /\ UNCHANGED <<upVars, streamVars, rangeVars, execVars, commVars, indexVars>>
    \/ Restart /\ UNCHANGED <<upVars, streamVars, rangeVars, execVars, commVars, indexVars>>
    \/ OrchUpProduce /\ UNCHANGED <<streamVars, rangeVars, execVars, orchVars, commVars, indexVars>>
    \/ UpIrreversible /\ UNCHANGED <<streamVars, rangeVars, execVars, orchVars, commVars, indexVars>>
    \/ UpReorg /\ UNCHANGED <<streamVars, rangeVars, execVars, orchVars, commVars, indexVars>>

Spec == Init /\ [][Next]_vars

\* ------------------------------------------- listen_steemd(trail_blocks)
\* listen_steemd entered with any trail_blocks allowed by its assertions
\* (0 <= trail_blocks < the aborting gap), on a store holding the first h
\* blocks of the chain, all irreversible, with the upstream head at or above
\* them.
ListenInit ==
    /\ \E h \in 0..MaxCk :
          /\ hive_blocks = StoredChain(h)
          /\ up_lib = h
          /\ up_head \in h..MaxChain
    /\ forkAt = 0
    /\ is_initial_sync = FALSE
    /\ files = {}
    /\ o_pc = "listen"
    /\ last_block = 0 /\ last_read = 0 /\ skip_lines = 0
    /\ ck_todo = <<>> /\ remaining = <<>>
    /\ sync_lbound = 0 /\ sync_ubound = 0 /\ sync_first = 0
    /\ curr_block = 0 /\ last_hash = NoHash /\ listen_block = Empty
    /\ cache_gap = 0
    /\ in_trx = FALSE /\ trx_base = <<>> /\ trx_log = <<>>
    /\ durable = hive_blocks
    /\ start_from = 1 /\ max_gap = 0
    /\ trail_blocks \in 0..Min(MaxTrail, ListenAbortGap - 1)
    /\ last = [num |-> 0, hash |-> BlockId(0, 0)]
    /\ head_num = 0 /\ start_head = 0 /\ lag_secs = 0
    /\ next_expected = 0 /\ slept = 0
    /\ queue = <<>> /\ block = Empty /\ yielded = <<>>
    /\ s_pc = "idle"
    /\ RangeIdle
    /\ ExecIdle
    /\ CommIdle
    /\ BlockIdle /\ CacheIdle /\ BatchIdle

ListenSteps ==
    \/ ListenStart /\ UNCHANGED <<upVars, streamVars, rangeVars, execVars, commVars, indexVars>>
    \/ ListenNext /\ UNCHANGED <<upVars, streamVars, rangeVars, execVars, commVars, indexVars>>
    \/ ListenAbortWith(trail_blocks)
         /\ UNCHANGED <<upVars, streamVars, rangeVars, execVars, commVars, indexVars>>
    \/ ListenProceedWith(trail_blocks)
         /\ UNCHANGED <<upVars, streamVars, rangeVars, execVars, commVars, indexVars>>
    \/ ListenUnlinkable /\ UNCHANGED <<upVars, streamVars, rangeVars, execVars, commVars, indexVars>>
    \/ ListenBegin /\ UNCHANGED <<upVars, streamVars, rangeVars, execVars, commVars, indexVars>>
    \/ ListenApply /\ UNCHANGED <<upVars, streamVars, rangeVars, execVars, commVars, indexVars>>
    \/ ListenFlush /\ UNCHANGED <<upVars, streamVars, rangeVars, execVars, commVars, indexVars>>
    \/ ListenCommit /\ UNCHANGED <<upVars, streamVars, rangeVars, execVars, commVars, indexVars>>
    \/ ListenFails /\ UNCHANGED <<upVars, streamVars, rangeVars, execVars, commVars, indexVars>>
    \/ OrchUpProduce /\ UNCHANGED <<streamVars, rangeVars, execVars, orchVars, commVars, indexVars>>
    \/ UpReorg /\ UNCHANGED <<streamVars, rangeVars, execVars, orchVars, commVars, indexVars>>

SpecListen == ListenInit /\ [][ListenSteps]_vars

\* ------------------------------------------- any checkpoints directory
\* A checkpoints directory as glob finds it: any files <num>.json.lst, each
\* holding the sequential blocks first..num, whether or not the files below
\* it are there.
AnyDirs ==
    {fs \in SUBSET [num : 1..MaxCk, first : 1..MaxCk] :
        /\ \A f \in fs : f.first <= f.num
        /\ \A f, g \in fs : f.num = g.num => f = g}

\* The initial sync starts on a store holding the first blocks of the chain
\* and on any such directory.
InitAnyDir ==
    /\ is_initial_sync = TRUE
    /\ \E h \in 0..MaxCk : hive_blocks = StoredChain(h)
    /\ files \in AnyDirs
    /\ up_lib = MaxCk
    /\ up_head = up_lib
    /\ forkAt = 0
    /\ o_pc = "start"
    /\ last_block = 0 /\ last_read = 0 /\ skip_lines = 0
    /\ ck_todo = <<>> /\ remaining = <<>>
    /\ sync_lbound = 0 /\ sync_ubound = 0 /\ sync_first = 0
    /\ curr_block = 0 /\ last_hash = NoHash /\ listen_block = Empty
    /\ cache_gap \in 0..MaxMissing
    /\ in_trx = FALSE /\ trx_base = <<>> /\ trx_log = <<>>
    /\ durable = hive_blocks
    /\ StreamIdle
    /\ RangeIdle
    /\ ExecIdle
    /\ CommIdle
    /\ BlockIdle /\ CacheIdle /\ BatchIdle

\* run() up to the end of sync_from_checkpoints(), no block failing
NextAnyDir ==
    \/ RunStart /\ UNCHANGED <<upVars, streamVars, rangeVars, execVars, commVars, indexVars>>
    \/ CkStart /\ UNCHANGED <<upVars, streamVars, rangeVars, execVars, commVars, indexVars>>
    \/ CkPassFile /\ UNCHANGED <<upVars, streamVars, rangeVars, execVars, commVars, indexVars>>
    \/ CkOpenFile /\ UNCHANGED <<upVars, streamVars, rangeVars, execVars, commVars, indexVars>>
    \/ CkChunk /\ UNCHANGED <<upVars, streamVars, rangeVars, execVars, commVars, indexVars>>
    \/ CkFileDone /\ UNCHANGED <<upVars, streamVars, rangeVars, execVars, commVars, indexVars>>
    \/ CkDone /\ UNCHANGED <<upVars, streamVars, rangeVars, execVars, commVars, indexVars>>

SpecAnyDir == InitAnyDir /\ [][NextAnyDir]_vars

\* ============================================================ community.py
\* Account names are sequences of characters.
HivePrefix == <<"h", "i", "v", "e", "-">>

Digits == {"0", "1", "2", "3", "4", "5", "6", "7", "8", "9"}

\* int(ch) of a digit
DigitValue(ch) ==
    CASE ch = "0" -> 0 [] ch = "1" -> 1 [] ch = "2" -> 2 [] ch = "3" -> 3
      [] ch = "4" -> 4 [] ch = "5" -> 5 [] ch = "6" -> 6 [] ch = "7" -> 7
      [] ch = "8" -> 8 [] ch = "9" -> 9

NameTopic == HivePrefix \o <<"1", "0", "0", "0", "1">>
NameJournal == HivePrefix \o <<"2", "0", "0", "0", "0", "0", "2">>
NameCouncil == HivePrefix \o <<"3", "0", "0", "0", "0", "3">>
NameType4 == HivePrefix \o <<"4", "0", "0", "0", "4">>
NameShort == HivePrefix \o <<"1", "0", "0", "5">>
NameLong == HivePrefix \o <<"3", "0", "0", "0", "0", "0", "0", "6">>
NameAlpha == HivePrefix \o <<"1", "0", "0", "a", "7">>
NameAlice == <<"a", "l", "i", "c", "e">>
NameBob == <<"b", "o", "b">>

\* re.match(r'^hive-[123]\d{4,6}$', name)
IsCommunityName(name) ==
    /\ Len(name) >= Len(HivePrefix) + 1 + 4
    /\ Len(name) <= Len(HivePrefix) + 1 + 6
    /\ SubSeq(name, 1, Len(HivePrefix)) = HivePrefix
    /\ name[Len(HivePrefix) + 1] \in {"1", "2", "3"}
    /\ \A i \in (Len(HivePrefix) + 2)..Len(name) : name[i] \in Digits

\* ROLES = {'owner': 8, 'admin': 6, 'mod': 4, 'member': 2, 'guest': 0,
\*          'muted': -2}
RoleNames == {"owner", "admin", "mod", "member", "guest", "muted"}

RoleId(role) ==
    CASE role = "owner" -> 8 [] role = "admin" -> 6 [] role = "mod" -> 4
      [] role = "member" -> 2 [] role = "guest" -> 0 [] role = "muted" -> -2

ROLE_OWNER == RoleId("owner")
ROLE_MOD == RoleId("mod")
ROLE_GUEST == RoleId("guest")

\* settings '{}' of a new community; the title NULL of a new role row
NoSettings == <<>>
NoTitle == <<>>

\* Accounts.exists(name)
AccountsExists(accts, name) == \E i \in 1..Len(accts) : accts[i] = name

\* Accounts.get_id(name); 0 when there is none
AccountsGetId(accts, name) ==
    IF AccountsExists(accts, name)
      THEN CHOOSE i \in 1..Len(accts) : accts[i] = name
      ELSE 0

\* Accounts.register(names, date): the names not seen before, in the order
\* they are met
RECURSIVE Unseen(_, _)
Unseen(accts, names) ==
    IF names = <<>> THEN <<>>
    ELSE IF AccountsExists(accts, Head(names))
           THEN Unseen(accts, Tail(names))
           ELSE <<Head(names)>> \o Unseen(Append(accts, Head(names)), Tail(names))

\* Community.register(names, block_date), called with the newly registered
\* names: for each name matching the pattern, INSERT INTO hive_communities
\* then INSERT INTO hive_roles
RECURSIVE CommunityRegister(_, _, _)
CommunityRegister(tables, accts, names) ==
    IF names = <<>> THEN tables
    ELSE LET name == Head(names) IN
         IF ~IsCommunityName(name)
           THEN CommunityRegister(tables, accts, Tail(names))
           ELSE LET type_id == DigitValue(name[6])
                    id == AccountsGetId(accts, name)
                IN CommunityRegister(
                     [communities |-> Append(tables.communities,
                          [id |-> id, name |-> name, type_id |-> type_id,
                           settings |-> NoSettings, subscribers |-> 0]),
                      roles |-> Append(tables.roles,
                          [community_id |-> id, account_id |-> id,
                           role_id |-> ROLE_OWNER, title |-> NoTitle])],
                     accts, Tail(names))

\* Community.get_id(name): SELECT id FROM hive_communities WHERE name = :name;
\* 0 when there is no row
CommunityGetId(communities, name) ==
    LET rows == {i \in 1..Len(communities) : communities[i].name = name} IN
    IF rows = {} THEN 0
    ELSE communities[CHOOSE i \in rows : \A j \in rows : i <= j].id

\* Community.get_user_role: SELECT role_id ... LIMIT 1, or ROLE_GUEST
GetUserRole(roles, community_id, account_id) ==
    LET rows == {i \in 1..Len(roles) :
                    /\ roles[i].community_id = community_id
                    /\ roles[i].account_id = account_id} IN
    IF rows = {} THEN ROLE_GUEST
    ELSE roles[CHOOSE i \in rows : \A j \in rows : i <= j].role_id

\* ------------------------------------------------- CommunityOp: setRole
\* _validate_permissions, action == 'setRole'
PermitsAnyNewRole(actor_role, new_role, same, account_role) ==
    /\ actor_role >= ROLE_MOD
    /\ same \/ (account_role < actor_role /\ account_role # new_role)

PermitsAtOwnRank(actor_role, new_role, same, account_role) ==
    /\ actor_role >= ROLE_MOD
    /\ actor_role >= new_role
    /\ same \/ (account_role < actor_role /\ account_role # new_role)

PermitsSetRole(actor_role, new_role, same, account_role) ==
    /\ actor_role >= ROLE_MOD
    /\ actor_role > new_role
    /\ same \/ (account_role < actor_role /\ account_role # new_role)

\* _read_community, _read_account, _read_role for the keys of a setRole op:
\* each assert that can fail
SchemaAccepts(accts, communities, community, account, role) ==
    /\ AccountsExists(accts, community)
    /\ CommunityGetId(communities, community) # 0
    /\ AccountsExists(accts, account)
    /\ role \in RoleNames

\* CommunityOp.validate for ['setRole', {community, account, role}] sent by
\* actor: TRUE when no assert fails
ValidateSetRole(accts, communities, roles, actor, community, account, role) ==
    /\ SchemaAccepts(accts, communities, community, account, role)
    /\ LET community_id == CommunityGetId(communities, community)
           actor_id == AccountsGetId(accts, actor)
           account_id == AccountsGetId(accts, account)
       IN PermitsSetRole(GetUserRole(roles, community_id, actor_id),
                         RoleId(role), actor = account,
                         GetUserRole(roles, community_id, account_id))

\* CommunityOp.process, action == 'setRole': UPDATE hive_roles SET role_id
\* WHERE account_id = :account_id AND community_id = :community_id
UpdateRole(roles, community_id, account_id, role_id) ==
    [i \in 1..Len(roles) |->
        IF roles[i].community_id = community_id /\ roles[i].account_id = account_id
          THEN [roles[i] EXCEPT !.role_id = role_id]
          ELSE roles[i]]

\* ---------------------------------------------------------- the store model
MaxStoreBlocks == 2  \* blocks of the chain that may be applied to the store
MaxApplied == 3      \* rows of hive_blocks, replays included

\* The account names the account_create operations of block n carry.
StoreBlockCreates(n) ==
    CASE n = 1 -> {NameTopic, NameAlice, NameBob}
      [] n = 2 -> {NameJournal, NameType4}
      [] n = 3 -> {NameCouncil, NameShort}
      [] n = 4 -> {NameLong, NameAlpha}
      [] OTHER -> {}

\* The orders in which a set of names may be iterated.
Orders(names) ==
    {o \in [1..Cardinality(names) -> names] :
        \A i, j \in 1..Cardinality(names) : i # j => o[i] # o[j]}

OpActors == {NameTopic, NameAlice, NameBob}
OpCommunities == {NameTopic, NameAlice, NameCouncil}
OpAccounts == {NameTopic, NameAlice, NameBob, NameShort}
OpRoles == RoleNames \cup {"king"}

\* The role rows a loaded store may hold for two accounts of a community.
LoadedRoles(community_id, ids) ==
    {[community_id |-> community_id, account_id |-> id, role_id |-> RoleId(r),
      title |-> NoTitle] : id \in ids, r \in RoleNames}

\* process_block(block n) in a transaction of its own.  The INSERT INTO
\* hive_blocks is its first statement; for a num already stored it either
\* adds a second row or raises (the table's constraints decide).
StoreApplyBlock(n) ==
    /\ Len(hive_blocks) < MaxApplied
    /\ n <= db_last_block(hive_blocks) + 1
    /\ \/ /\ \E row \in 1..Len(hive_blocks) : hive_blocks[row].num = n
          /\ c_last' = [kind |-> "block", ok |-> FALSE]
          /\ UNCHANGED <<hive_blocks, durable, accounts, hive_communities,
                         hive_roles>>
       \/ \E order \in Orders(StoreBlockCreates(n)) :
            LET new == Unseen(accounts, order)
                registered == accounts \o new
                tables == CommunityRegister(
                              [communities |-> hive_communities,
                               roles |-> hive_roles], registered, new)
            IN /\ hive_blocks' = process_block(hive_blocks, ChainBlock(0, n))
               /\ durable' = hive_blocks'
               /\ accounts' = registered
               /\ hive_communities' = tables.communities
               /\ hive_roles' = tables.roles
               /\ c_last' = [kind |-> "block", ok |-> TRUE]
    /\ UNCHANGED <<is_initial_sync, o_pc, ckVars, syncVars, listenVars,
                   cache_gap, in_trx, trx_base, trx_log, opVars>>

\* process_json_community_op(actor, ['setRole', {...}], date): validate, then
\* process; a failed assert leaves the op unapplied.
StoreSetRole(actor, community, account, role) ==
    /\ AccountsExists(accounts, actor)
    /\ IF ValidateSetRole(accounts, hive_communities, hive_roles,
                          actor, community, account, role)
         THEN /\ hive_roles' = UpdateRole(hive_roles,
                                   CommunityGetId(hive_communities, community),
                                   AccountsGetId(accounts, account),
                                   RoleId(role))
              /\ c_last' = [kind |-> "setRole", ok |-> TRUE]
         ELSE /\ hive_roles' = hive_roles
              /\ c_last' = [kind |-> "setRole", ok |-> FALSE]
    /\ UNCHANGED <<accounts, hive_communities, orchVars, opVars>>

\* The empty store; blocks are applied to it and the owner of the first
\* community sends setRole ops.
StoreInit ==
    /\ UpIdle /\ StreamIdle /\ RangeIdle /\ ExecIdle /\ OrchIdle /\ CommIdle
    /\ BlockIdle /\ CacheIdle /\ BatchIdle

OwnerOpAccounts == {NameTopic, NameBob}
OwnerOpRoles == {"mod", "member"}

StoreNext ==
    \/ \E n \in 1..MaxStoreBlocks :
         StoreApplyBlock(n) /\ UNCHANGED <<upVars, streamVars, rangeVars, execVars, indexVars>>
    \/ \E account \in OwnerOpAccounts, role \in OwnerOpRoles :
         StoreSetRole(NameTopic, NameTopic, account, role)
           /\ UNCHANGED <<upVars, streamVars, rangeVars, execVars, indexVars>>

SpecStore == StoreInit /\ [][StoreNext]_vars

\* A store loaded with the first block, its community and role rows for the
\* community's other accounts; every account sends setRole ops.
RolesInit ==
    /\ UpIdle /\ StreamIdle /\ RangeIdle /\ ExecIdle /\ OrchLocalsIdle
    /\ BlockIdle /\ CacheIdle /\ BatchIdle
    /\ c_last = NoOp
    /\ hive_blocks = StoredChain(1)
    /\ durable = hive_blocks
    /\ accounts = <<NameTopic, NameAlice, NameBob>>
    /\ hive_communities = <<[id |-> 1, name |-> NameTopic, type_id |-> 1,
                            settings |-> NoSettings, subscribers |-> 0]>>
    /\ hive_posts = <<>> /\ hive_subscriptions = <<>> /\ hive_flags = <<>>
    /\ c_op = NoCommunityOp
    /\ post_check = NoPostCheck
    /\ \E second \in {<<>>} \cup {<<r>> : r \in LoadedRoles(1, {2})} :
       \E third \in {<<>>} \cup {<<r>> : r \in LoadedRoles(1, {3})} :
         hive_roles = <<[community_id |-> 1, account_id |-> 1,
                         role_id |-> ROLE_OWNER, title |-> NoTitle]>>
                         \o second \o third

RolesNext ==
    \E actor \in OpActors, community \in OpCommunities,
       account \in OpAccounts, role \in OpRoles :
      StoreSetRole(actor, community, account, role)
        /\ UNCHANGED <<upVars, streamVars, rangeVars, execVars, indexVars>>

SpecRoles == RolesInit /\ [][RolesNext]_vars

\* ====================================================== CommunityOp: all ops
\* op_json as decoded from the custom_json operation.  An element of the
\* list is a string (str) or a dict (dict: each key of AllKeys to its value,
\* or to Absent) or a number; a value is a string (val), for the settings key
\* with what json.loads gives for it (json), or a number.
AllKeys == {"community", "account", "permlink", "role", "notes", "title",
            "settings", "extra"}

Absent == [type |-> "absent", val |-> <<>>, json |-> "none"]
StrVal(chars) == [type |-> "str", val |-> chars, json |-> "invalid"]
JsonVal(chars, class) == [type |-> "str", val |-> chars, json |-> class]
IntVal == [type |-> "int", val |-> <<>>, json |-> "invalid"]

NoParams == [k \in AllKeys |-> Absent]
StrElem(word) == [type |-> "str", str |-> word, dict |-> NoParams]
DictElem(params) == [type |-> "dict", str |-> "", dict |-> params]
IntElem == [type |-> "int", str |-> "", dict |-> NoParams]

ListOp(elems) == [is_list |-> TRUE, elems |-> elems]
DictOp(params) == [is_list |-> FALSE, elems |-> <<DictElem(params)>>]

\* SCHEMA
SCHEMA(action) ==
    CASE action = "setRole" -> {"community", "account", "role"}
      [] action = "updateSettings" -> {"community", "settings"}
      [] action = "setUserTitle" -> {"community", "title"}
      [] action = "mutePost" -> {"community", "account", "permlink", "notes"}
      [] action = "unmutePost" -> {"community", "account", "permlink", "notes"}
      [] action = "pinPost" -> {"community", "account", "permlink"}
      [] action = "unpinPost" -> {"community", "account", "permlink"}
      [] action = "flagPost" -> {"community", "account", "permlink", "notes"}
      [] action = "subscribe" -> {"community"}
      [] action = "unsubscribe" -> {"community"}

\* SCHEMA.keys()
Actions == {"setRole", "updateSettings", "setUserTitle", "mutePost",
            "unmutePost", "pinPost", "unpinPost", "flagPost", "subscribe",
            "unsubscribe"}

PostActions == {"mutePost", "unmutePost", "pinPost", "unpinPost", "flagPost"}

\* _validate_raw_op: the first assert that fails, or "none"
RawOpError(raw) ==
    IF ~raw.is_list THEN "op json must be list"
    ELSE IF Len(raw.elems) # 2 THEN "op json must have 2 elements"
    ELSE IF raw.elems[1].type # "str" THEN "op json[0] must be string"
    ELSE IF raw.elems[2].type # "dict" THEN "op json[1] must be dict"
    ELSE IF raw.elems[1].str \notin Actions THEN "invalid action"
    ELSE "none"

\* self.op.keys()
KeysOf(params) == {k \in AllKeys : params[k].type # "absent"}

AcceptsExtraKeys(action, params) == SCHEMA(action) \subseteq KeysOf(params)

\* _read_schema, validate structure: no key missing, no key extra
KeysMatch(action, params) ==
    /\ SCHEMA(action) \ KeysOf(params) = {}
    /\ KeysOf(params) \ SCHEMA(action) = {}

\* read_key_str(op, key) raises for a value that is no str or is blank
ReadKeyStrFails(params, key) ==
    /\ params[key].type # "absent"
    /\ params[key].type # "str" \/ params[key].val = <<>>

\* the role names as the op spells them
RoleWord(role) ==
    CASE role = "owner" -> <<"o", "w", "n", "e", "r">>
      [] role = "admin" -> <<"a", "d", "m", "i", "n">>
      [] role = "mod" -> <<"m", "o", "d">>
      [] role = "member" -> <<"m", "e", "m", "b", "e", "r">>
      [] role = "guest" -> <<"g", "u", "e", "s", "t">>
      [] role = "muted" -> <<"m", "u", "t", "e", "d">>

\* str.strip() for blanks
RECURSIVE LStrip(_)
LStrip(chars) ==
    IF chars # <<>> /\ Head(chars) = " " THEN LStrip(Tail(chars)) ELSE chars

RECURSIVE RStrip(_)
RStrip(chars) ==
    IF chars # <<>> /\ chars[Len(chars)] = " "
      THEN RStrip(SubSeq(chars, 1, Len(chars) - 1))
      ELSE chars

Strip(chars) == RStrip(LStrip(chars))

NotesMax == 120     \* len(_notes) <= 120
TitleLimit == 32    \* len(_title) < 32

\* Posts.get_id(author, permlink); 0 when there is none
PostsGetId(posts, author, permlink) ==
    LET rows == {i \in 1..Len(posts) :
                    /\ posts[i].author = author
                    /\ posts[i].permlink = permlink
                    /\ ~posts[i].is_deleted} IN
    IF rows = {} THEN 0 ELSE CHOOSE i \in rows : \A j \in rows : i <= j

\* the community NULL of a post outside every community
NoCommunity == <<>>

\* Community.is_pinned(post_id)
IsPinned(posts, post_id) == post_id \in 1..Len(posts) /\ posts[post_id].is_pinned

\* Community.is_subscribed(community_id, account_id)
IsSubscribed(subscriptions, community_id, account_id) ==
    \E i \in 1..Len(subscriptions) :
        /\ subscriptions[i].community_id = community_id
        /\ subscriptions[i].account_id = account_id

ROLE_ADMIN == RoleId("admin")
ROLE_MEMBER == RoleId("member")
ROLE_MUTED == RoleId("muted")

\* The tables community.py reads and writes.
Tables ==
    [accounts |-> accounts, communities |-> hive_communities,
     roles |-> hive_roles, posts |-> hive_posts,
     subscriptions |-> hive_subscriptions, flags |-> hive_flags]

\* _read_community .. _read_settings: the first assert that fails, or "none"
ReadCommunityError(t, params) ==
    IF ReadKeyStrFails(params, "community") THEN "key community was not str"
    ELSE IF ~AccountsExists(t.accounts, params["community"].val)
      THEN "invalid name"
    ELSE IF CommunityGetId(t.communities, params["community"].val) = 0
      THEN "community does not exist"
    ELSE "none"

ReadAccountError(t, params) ==
    IF ReadKeyStrFails(params, "account") THEN "key account was not str"
    ELSE IF ~AccountsExists(t.accounts, params["account"].val)
      THEN "account not found"
    ELSE "none"

ReadPermlinkInAnyCommunity(t, params) ==
    IF ReadKeyStrFails(params, "permlink") THEN "key permlink was not str"
    ELSE IF PostsGetId(t.posts, params["account"].val, params["permlink"].val) = 0
      THEN "invalid post"
    ELSE "none"

\* _read_permlink
ReadPermlinkError(t, params) ==
    IF ReadKeyStrFails(params, "permlink") THEN "key permlink was not str"
    ELSE LET _pid == PostsGetId(t.posts, params["account"].val,
                                params["permlink"].val) IN
         IF _pid = 0 THEN "invalid post"
         ELSE IF t.posts[_pid].community # params["community"].val
           THEN "post does not belong to community"
         ELSE "none"

ReadRoleError(params) ==
    IF ReadKeyStrFails(params, "role") THEN "key role was not str"
    ELSE IF \A r \in RoleNames : RoleWord(r) # params["role"].val
      THEN "invalid role"
    ELSE "none"

ReadNotesError(params) ==
    IF ReadKeyStrFails(params, "notes") THEN "key notes was not str"
    ELSE IF Len(params["notes"].val) > NotesMax
      THEN "notes must be under 120 characters"
    ELSE IF Strip(params["notes"].val) = <<>> THEN "notes cannot be blank"
    ELSE "none"

ReadTitleError(params) ==
    IF ReadKeyStrFails(params, "title") THEN "key title was not str"
    ELSE IF ~(Len(Strip(params["title"].val)) < TitleLimit)
      THEN "user title must be under 32 characters"
    ELSE "none"

ReadSettingsError(params) ==
    IF params["settings"].json # "object" THEN "json key settings was blank"
    ELSE "none"

ReadKeyError(t, params, key) ==
    CASE key = "community" -> ReadCommunityError(t, params)
      [] key = "account" -> ReadAccountError(t, params)
      [] key = "permlink" -> ReadPermlinkError(t, params)
      [] key = "role" -> ReadRoleError(params)
      [] key = "notes" -> ReadNotesError(params)
      [] key = "title" -> ReadTitleError(params)
      [] key = "settings" -> ReadSettingsError(params)

\* the order in which _read_schema reads the keys
ReadOrder ==
    <<"community", "account", "permlink", "role", "notes", "title", "settings">>

RECURSIVE FirstReadError(_, _, _, _)
FirstReadError(t, schema, params, i) ==
    IF i > Len(ReadOrder) THEN "none"
    ELSE IF ReadOrder[i] \in schema /\ ReadKeyError(t, params, ReadOrder[i]) # "none"
      THEN ReadKeyError(t, params, ReadOrder[i])
    ELSE FirstReadError(t, schema, params, i + 1)

\* _read_schema
ReadSchemaError(t, action, params) ==
    IF SCHEMA(action) \ KeysOf(params) # {} THEN "missing keys"
    ELSE IF ~KeysMatch(action, params) THEN "extraneous keys"
    ELSE FirstReadError(t, SCHEMA(action), params, 1)

\* The fields of the CommunityOp after _read_schema; None is 0 or <<>>.
OpFields(t, actor, action, params) ==
    [action |-> action,
     actor |-> actor,
     actor_id |-> AccountsGetId(t.accounts, actor),
     community |-> params["community"].val,
     community_id |-> CommunityGetId(t.communities, params["community"].val),
     account |-> IF "account" \in SCHEMA(action)
                   THEN params["account"].val ELSE <<>>,
     account_id |-> IF "account" \in SCHEMA(action)
                      THEN AccountsGetId(t.accounts, params["account"].val)
                      ELSE 0,
     post_id |-> IF "permlink" \in SCHEMA(action)
                   THEN PostsGetId(t.posts, params["account"].val,
                                   params["permlink"].val)
                   ELSE 0,
     role_id |-> IF "role" \in SCHEMA(action)
                   THEN RoleId(CHOOSE r \in RoleNames :
                                  RoleWord(r) = params["role"].val)
                   ELSE 0,
     notes |-> IF "notes" \in SCHEMA(action)
                 THEN Strip(params["notes"].val) ELSE <<>>,
     title |-> IF "title" \in SCHEMA(action)
                 THEN Strip(params["title"].val) ELSE <<>>,
     settings |-> IF "settings" \in SCHEMA(action)
                    THEN params["settings"].val ELSE <<>>]

MeetsLowerThreshold(action, actor_role) ==
    IF action = "flagPost" THEN actor_role > ROLE_MUTED
    ELSE actor_role >= ROLE_MEMBER

\* the role the actor needs for the action
MeetsThreshold(action, actor_role) ==
    CASE action = "updateSettings" -> actor_role >= ROLE_ADMIN
      [] action \in {"setUserTitle", "mutePost", "unmutePost", "pinPost",
                     "unpinPost"} -> actor_role >= ROLE_MOD
      [] action = "flagPost" -> actor_role > ROLE_MUTED

PinStateAny(action, pinned) == TRUE

\* pinPost: assert not pinned; unpinPost: assert pinned
PinStateAllows(action, pinned) ==
    CASE action = "pinPost" -> ~pinned
      [] action = "unpinPost" -> pinned
      [] OTHER -> TRUE

SubscriptionAny(action, active) == TRUE

\* subscribe: assert not active; unsubscribe: assert active
SubscriptionAllows(action, active) ==
    CASE action = "subscribe" -> ~active
      [] action = "unsubscribe" -> active

PermissionIgnored(t, op) == "none"

\* _validate_permissions: the first assert that fails, or "none"
PermissionError(t, op) ==
    LET actor_role == GetUserRole(t.roles, op.community_id, op.actor_id) IN
    CASE op.action = "setRole" ->
           IF PermitsSetRole(actor_role, op.role_id, op.actor = op.account,
                             GetUserRole(t.roles, op.community_id, op.account_id))
             THEN "none" ELSE "role not permitted"
      [] op.action \in {"pinPost", "unpinPost"} ->
           IF ~PinStateAllows(op.action, IsPinned(t.posts, op.post_id))
             THEN "post is already (not) pinned"
           ELSE IF ~MeetsThreshold(op.action, actor_role)
             THEN "only mods can (un)pin posts"
           ELSE "none"
      [] op.action \in {"subscribe", "unsubscribe"} ->
           IF SubscriptionAllows(op.action,
                  IsSubscribed(t.subscriptions, op.community_id, op.actor_id))
             THEN "none" ELSE "already (un)subscribed"
      [] OTHER ->
           IF MeetsThreshold(op.action, actor_role)
             THEN "none" ELSE "role too low"

\* CommunityOp.validate: the first assert that fails, or "none"
ValidateError(t, actor, raw) ==
    IF RawOpError(raw) # "none" THEN RawOpError(raw)
    ELSE LET action == raw.elems[1].str
             params == raw.elems[2].dict
         IN IF ReadSchemaError(t, action, params) # "none"
              THEN ReadSchemaError(t, action, params)
              ELSE PermissionError(t, OpFields(t, actor, action, params))

\* ----------------------------------------------------- CommunityOp.process
\* UPDATE hive_communities SET settings = :settings WHERE name = :community
UpdateSettings(communities, community, settings) ==
    [i \in 1..Len(communities) |->
        IF communities[i].name = community
          THEN [communities[i] EXCEPT !.settings = settings]
          ELSE communities[i]]

\* UPDATE hive_roles SET title = :title WHERE account_id = :account_id AND
\* community_id = :community_id
UpdateTitle(roles, community_id, account_id, title) ==
    [i \in 1..Len(roles) |->
        IF roles[i].community_id = community_id /\ roles[i].account_id = account_id
          THEN [roles[i] EXCEPT !.title = title]
          ELSE roles[i]]

\* DELETE FROM hive_subscriptions WHERE account_id = :actor_id AND
\* community_id = :community_id
RECURSIVE DeleteSubscription(_, _, _)
DeleteSubscription(subscriptions, community_id, account_id) ==
    IF subscriptions = <<>> THEN <<>>
    ELSE IF /\ Head(subscriptions).community_id = community_id
            /\ Head(subscriptions).account_id = account_id
      THEN DeleteSubscription(Tail(subscriptions), community_id, account_id)
      ELSE <<Head(subscriptions)>>
             \o DeleteSubscription(Tail(subscriptions), community_id, account_id)

\* UPDATE hive_posts SET is_muted / is_pinned WHERE id = :post_id
UpdatePost(posts, post_id, action) ==
    [i \in 1..Len(posts) |->
        IF i # post_id THEN posts[i]
        ELSE CASE action = "mutePost" -> [posts[i] EXCEPT !.is_muted = TRUE]
               [] action = "unmutePost" -> [posts[i] EXCEPT !.is_muted = FALSE]
               [] action = "pinPost" -> [posts[i] EXCEPT !.is_pinned = TRUE]
               [] action = "unpinPost" -> [posts[i] EXCEPT !.is_pinned = FALSE]]

\* What process can do for a validated op: the tables after the statements
\* that ran, and whether a statement raised.  The second statement of
\* subscribe and of unsubscribe ends in an unmatched ); the INSERT of
\* flagPost names :permlink, which params does not hold.
ProcessOutcomes(t, op) ==
    CASE op.action = "updateSettings" ->
           {[tables |-> [t EXCEPT !.communities =
                            UpdateSettings(@, op.community, op.settings)],
             raised |-> FALSE]}
      [] op.action = "subscribe" ->
           {[tables |-> [t EXCEPT !.subscriptions =
                            Append(@, [account_id |-> op.actor_id,
                                       community_id |-> op.community_id])],
             raised |-> TRUE]}
      [] op.action = "unsubscribe" ->
           {[tables |-> [t EXCEPT !.subscriptions =
                            DeleteSubscription(@, op.community_id, op.actor_id)],
             raised |-> TRUE]}
      [] op.action = "setRole" ->
           {[tables |-> [t EXCEPT !.roles =
                            UpdateRole(@, op.community_id, op.account_id,
                                       op.role_id)],
             raised |-> FALSE]}
      [] op.action = "setUserTitle" ->
           {[tables |-> [t EXCEPT !.roles =
                            UpdateTitle(@, op.community_id, op.account_id,
                                        op.title)],
             raised |-> FALSE]}
      [] op.action \in {"mutePost", "unmutePost", "pinPost", "unpinPost"} ->
           {[tables |-> [t EXCEPT !.posts = UpdatePost(@, op.post_id, op.action)],
             raised |-> FALSE]}
      [] op.action = "flagPost" ->
           {[tables |-> t, raised |-> TRUE],
            [tables |-> [t EXCEPT !.flags =
                            Append(@, [account |-> op.actor,
                                       community |-> op.community,
                                       author |-> op.account,
                                       permlink |-> <<>>,
                                       comment |-> op.notes])],
             raised |-> FALSE]}

\* ------------------------------------------------------------ the op model
MaxFlags == 1        \* rows of hive_flags

PermOne == <<"p", "1">>
PermTwo == <<"p", "2">>
PermThree == <<"p", "3">>
NotesFine == <<"s", "p", "a", "m">>
NotesBlank == <<" ", " ">>
TitleChief == <<" ", "c", "h", "i", "e", "f">>
SettingsText == <<"{", "t", "}">>

\* A params dict with the given values for the keys it has.
Params(keys, community, account, permlink) ==
    [k \in AllKeys |->
        IF k \notin keys THEN Absent
        ELSE CASE k = "community" -> StrVal(community)
               [] k = "account" -> StrVal(account)
               [] k = "permlink" -> StrVal(permlink)
               [] k = "role" -> StrVal(RoleWord("member"))
               [] k = "notes" -> StrVal(NotesFine)
               [] k = "title" -> StrVal(TitleChief)
               [] k = "settings" -> JsonVal(SettingsText, "object")
               [] k = "extra" -> StrVal(NotesFine)]

WellFormed(action, community, account, permlink) ==
    ListOp(<<StrElem(action),
             DictElem(Params(SCHEMA(action), community, account, permlink))>>)

\* The posts named by the ops: an existing one of each kind and a missing one.
PostRefs == {<<NameAlice, PermOne>>, <<NameBob, PermTwo>>,
             <<NameBob, PermThree>>, <<NameAlice, PermTwo>>}

\* The payloads of the custom_json ops that arrive.
OpPool ==
    {WellFormed(a, NameTopic, ref[1], ref[2]) : a \in PostActions, ref \in PostRefs}
    \cup {WellFormed(a, NameJournal, NameAlice, PermOne) : a \in PostActions}
    \cup {WellFormed(a, c, NameAlice, PermOne) :
            a \in {"updateSettings", "subscribe", "unsubscribe", "setUserTitle"},
            c \in {NameTopic, NameAlice}}
    \cup {WellFormed("setRole", NameTopic, n, PermOne) : n \in {NameAlice, NameBob}}
    \cup {ListOp(<<StrElem(a),
                   DictElem(Params(SCHEMA(a) \cup {"extra"}, NameTopic,
                                   NameAlice, PermOne))>>) : a \in Actions}
    \cup {ListOp(<<StrElem(a),
                   DictElem(Params(SCHEMA(a) \ {"community"}, NameTopic,
                                   NameAlice, PermOne))>>) : a \in Actions}
    \cup {ListOp(<<StrElem("updateSettings"),
                   DictElem([Params(SCHEMA("updateSettings"), NameTopic,
                                    NameAlice, PermOne)
                               EXCEPT !["settings"] = v])>>) :
            v \in {JsonVal(SettingsText, "invalid"), JsonVal(SettingsText, "empty"),
                   IntVal}}
    \cup {ListOp(<<StrElem("mutePost"),
                   DictElem([Params(SCHEMA("mutePost"), NameTopic,
                                    NameAlice, PermOne)
                               EXCEPT ![k] = v])>>) :
            k \in {"community", "notes"},
            v \in {IntVal, StrVal(<<>>), StrVal(NotesBlank)}}
    \cup {DictOp(Params(SCHEMA("mutePost"), NameTopic, NameAlice, PermOne)),
          ListOp(<<StrElem("mutePost")>>),
          ListOp(<<StrElem("mutePost"),
                   DictElem(Params(SCHEMA("mutePost"), NameTopic, NameAlice,
                                   PermOne)),
                   StrElem("mutePost")>>),
          ListOp(<<IntElem,
                   DictElem(Params(SCHEMA("mutePost"), NameTopic, NameAlice,
                                   PermOne))>>),
          ListOp(<<StrElem("mutePost"), StrElem("mutePost")>>),
          ListOp(<<StrElem("banPost"),
                   DictElem(Params(SCHEMA("mutePost"), NameTopic, NameAlice,
                                   PermOne))>>)}

OpSenders == {NameAlice, NameBob}

\* A custom_json community op of a block reaches process_json_community_op.
OpArrives(actor, raw) ==
    /\ c_op = NoCommunityOp
    /\ AccountsExists(accounts, actor)
    /\ (RawOpError(raw) = "none" /\ raw.elems[1].str = "flagPost")
         => Len(hive_flags) < MaxFlags
    /\ c_op' = [actor |-> actor, raw |-> raw]
    /\ c_last' = NoOp
    /\ UNCHANGED <<accounts, hive_communities, hive_roles, hive_posts,
                   hive_subscriptions, hive_flags, post_check, orchVars>>

\* CustomOp.process_ops: an op whose validation failed is dropped with a log
\* line, and the next op of the block is handled.
DroppedOutcome == [kind |-> "dropped", ok |-> FALSE]

\* The six tables become those of t.
TablesBecome(t) ==
    /\ accounts' = t.accounts
    /\ hive_communities' = t.communities
    /\ hive_roles' = t.roles
    /\ hive_posts' = t.posts
    /\ hive_subscriptions' = t.subscriptions
    /\ hive_flags' = t.flags

\* process_json_community_op(actor, op_json, date): validate, then process.
\* A failed assert of validate leaves the function before process; after a
\* statement that raised, the rows written by the op either stay or are
\* rolled back with the transaction.
HandleOp ==
    /\ c_op # NoCommunityOp
    /\ c_op' = NoCommunityOp
    /\ LET kind == IF RawOpError(c_op.raw) = "none"
                     THEN c_op.raw.elems[1].str ELSE "invalid" IN
       IF ValidateError(Tables, c_op.actor, c_op.raw) # "none"
         THEN /\ TablesBecome(Tables)
              /\ c_last' = DroppedOutcome
         ELSE \E outcome \in ProcessOutcomes(Tables,
                                 OpFields(Tables, c_op.actor, kind,
                                          c_op.raw.elems[2].dict)) :
                IF outcome.raised
                  THEN /\ \/ TablesBecome(outcome.tables)
                          \/ TablesBecome(Tables)
                       /\ c_last' = [kind |-> "raised", ok |-> FALSE]
                  ELSE /\ TablesBecome(outcome.tables)
                       /\ c_last' = [kind |-> kind, ok |-> TRUE]
    /\ UNCHANGED <<post_check, orchVars>>

\* A store with a topic and a journal community, three posts and any role, or
\* no role row, for alice in the topic community.
OpsInit ==
    /\ UpIdle /\ StreamIdle /\ RangeIdle /\ ExecIdle /\ OrchLocalsIdle
    /\ BlockIdle /\ CacheIdle /\ BatchIdle
    /\ hive_blocks = StoredChain(1)
    /\ durable = hive_blocks
    /\ c_last = NoOp
    /\ c_op = NoCommunityOp
    /\ post_check = NoPostCheck
    /\ accounts = <<NameTopic, NameAlice, NameBob, NameJournal>>
    /\ hive_communities =
         <<[id |-> 1, name |-> NameTopic, type_id |-> 1,
            settings |-> NoSettings, subscribers |-> 0],
           [id |-> 4, name |-> NameJournal, type_id |-> 2,
            settings |-> NoSettings, subscribers |-> 0]>>
    /\ \E second \in {<<>>} \cup {<<r>> : r \in LoadedRoles(1, {2})} :
         hive_roles = <<[community_id |-> 1, account_id |-> 1,
                         role_id |-> ROLE_OWNER, title |-> NoTitle],
                        [community_id |-> 4, account_id |-> 4,
                         role_id |-> ROLE_OWNER, title |-> NoTitle]>> \o second
    /\ hive_posts =
         <<[author |-> NameAlice, permlink |-> PermOne, community |-> NameTopic,
            is_deleted |-> FALSE, is_muted |-> FALSE, is_pinned |-> FALSE],
           [author |-> NameBob, permlink |-> PermTwo, community |-> NameJournal,
            is_deleted |-> FALSE, is_muted |-> FALSE, is_pinned |-> FALSE],
           [author |-> NameBob, permlink |-> PermThree, community |-> NoCommunity,
            is_deleted |-> FALSE, is_muted |-> FALSE, is_pinned |-> FALSE]>>
    /\ hive_subscriptions = <<>>
    /\ hive_flags = <<>>

OpsNext ==
    \/ \E actor \in OpSenders, raw \in OpPool :
         OpArrives(actor, raw) /\ UNCHANGED <<upVars, streamVars, rangeVars, execVars, indexVars>>
    \/ HandleOp /\ UNCHANGED <<upVars, streamVars, rangeVars, execVars, indexVars>>

SpecOps == OpsInit /\ [][OpsNext]_vars

\* ------------------------------------------------ Community.is_post_valid
TYPE_JOURNAL == 2    \* TYPE_JOURNAL = 2
TYPE_COUNCIL == 3    \* TYPE_COUNCIL = 3

MutedMayComment(communities, roles, accts, community, comment_op) ==
    LET role == GetUserRole(roles, CommunityGetId(communities, community),
                            AccountsGetId(accts, comment_op.author))
        type_id == DigitValue(community[6])
    IN IF type_id = TYPE_JOURNAL /\ comment_op.parent_author = <<>>
         THEN role >= ROLE_MEMBER
       ELSE IF type_id = TYPE_COUNCIL THEN role >= ROLE_MEMBER
       ELSE role >= ROLE_GUEST \/ comment_op.parent_author # <<>>

\* is_post_valid(community, comment_op)
IsPostValid(communities, roles, accts, community, comment_op) ==
    LET community_id == CommunityGetId(communities, community)
        account_id == AccountsGetId(accts, comment_op.author)
        role == GetUserRole(roles, community_id, account_id)
        type_id == DigitValue(community[6])
    IN IF type_id = TYPE_JOURNAL /\ comment_op.parent_author = <<>>
         THEN role >= ROLE_MEMBER
       ELSE IF type_id = TYPE_COUNCIL THEN role >= ROLE_MEMBER
       ELSE role >= ROLE_GUEST

\* Posts.register asks whether a comment op is valid in its community.
PostCheck(community, author, parent_author) ==
    /\ post_check' =
         [community |-> community, author |-> author,
          parent_author |-> parent_author,
          valid |-> IsPostValid(hive_communities, hive_roles, accounts, community,
                        [author |-> author, parent_author |-> parent_author])]
    /\ UNCHANGED <<accounts, hive_communities, hive_roles, c_last, hive_posts,
                   hive_subscriptions, hive_flags, c_op, orchVars>>

\* A store with a community of each type, and any role, or no role row, for
\* alice in one of them.
ValidInit ==
    /\ UpIdle /\ StreamIdle /\ RangeIdle /\ ExecIdle /\ OrchLocalsIdle
    /\ BlockIdle /\ CacheIdle /\ BatchIdle
    /\ hive_blocks = StoredChain(1)
    /\ durable = hive_blocks
    /\ c_last = NoOp
    /\ c_op = NoCommunityOp
    /\ post_check = NoPostCheck
    /\ accounts = <<NameTopic, NameJournal, NameCouncil, NameAlice>>
    /\ hive_communities =
         [i \in 1..3 |-> [id |-> i, name |-> accounts[i],
                          type_id |-> DigitValue(accounts[i][6]),
                          settings |-> NoSettings, subscribers |-> 0]]
    /\ \E fourth \in {<<>>} \cup {<<r>> : r \in UNION {LoadedRoles(c, {4}) : c \in 1..3}} :
         hive_roles = [i \in 1..3 |-> [community_id |-> i, account_id |-> i,
                                       role_id |-> ROLE_OWNER, title |-> NoTitle]]
                        \o fourth
    /\ hive_posts = <<>> /\ hive_subscriptions = <<>> /\ hive_flags = <<>>

ValidNext ==
    \E community \in {NameTopic, NameJournal, NameCouncil},
       author \in {NameAlice, NameTopic, NameCouncil},
       parent_author \in {<<>>, NameAlice} :
      PostCheck(community, author, parent_author)
        /\ UNCHANGED <<upVars, streamVars, rangeVars, execVars, indexVars>>

SpecValid == ValidInit /\ [][ValidNext]_vars

\* ------------------------------------------------- setUserTitle: the titles
MaxTitle == 33       \* characters of a title, padding aside

\* A title of n characters, after a blank when padded.
TitleText(n, padded) ==
    (IF padded THEN <<" ">> ELSE <<>>) \o [k \in 1..n |-> "t"]

\* ['setUserTitle', {'community': 'hive-10001', 'title': title}]
TitleOp(title) ==
    ListOp(<<StrElem("setUserTitle"),
             DictElem([Params({"community", "title"}, NameTopic, <<>>, <<>>)
                          EXCEPT !["title"] = StrVal(title)])>>)

\* setUserTitle ops with titles of every length reach
\* process_json_community_op.
TitlesNext ==
    \/ \E actor \in OpSenders, n \in 0..MaxTitle, padded \in BOOLEAN :
         OpArrives(actor, TitleOp(TitleText(n, padded)))
           /\ UNCHANGED <<upVars, streamVars, rangeVars, execVars, indexVars>>
    \/ HandleOp /\ UNCHANGED <<upVars, streamVars, rangeVars, execVars, indexVars>>

SpecTitles == OpsInit /\ [][TitlesNext]_vars

\* ============================================================ process_block
\* An operation of a transaction is [op_type, op]; of op only the keys that
\* process_block reads are kept: worker_account or new_account_name (account),
\* author, permlink, and for a custom_json op its id.
BlockOp(type, account, author, permlink, id) ==
    [type |-> type, account |-> account, author |-> author,
     permlink |-> permlink, id |-> id]

MaxBlockOps == 3     \* operations in a block

BlockOpPool ==
    {BlockOp("pow", NameTopic, <<>>, <<>>, ""),
     BlockOp("pow2", NameJournal, <<>>, <<>>, ""),
     BlockOp("account_create", NameCouncil, <<>>, <<>>, ""),
     BlockOp("account_create_with_delegation", NameShort, <<>>, <<>>, ""),
     BlockOp("comment", <<>>, NameAlice, PermOne, ""),
     BlockOp("delete_comment", <<>>, NameAlice, PermThree, ""),
     BlockOp("custom_json", <<>>, <<>>, <<>>, "follow"),
     BlockOp("custom_json", <<>>, <<>>, <<>>, "community"),
     BlockOp("vote", <<>>, NameBob, PermTwo, ""),
     BlockOp("transfer", <<>>, <<>>, <<>>, "")}

\* The block process_block is called with: block 2 of the chain, with the
\* operations ops in two transactions, the first cut of them in the first.
ScanBlock(ops, cut) ==
    [num |-> 2, block_id |-> BlockId(0, 2), previous |-> BlockId(0, 1),
     transactions |-> <<[operations |-> SubSeq(ops, 1, cut)],
                        [operations |-> SubSeq(ops, cut + 1, Len(ops))]>>]

\* txs = block['transactions']
Txs == b_block.transactions

\* op['author']+'/'+op['permlink']
Url(author, permlink) == author \o <<"/">> \o permlink

\* the op types whose branch calls account_names.add
NamingOps == {"pow", "pow2", "account_create", "account_create_with_delegation"}

DirtiesUrlOnDelete(op_type) == op_type \in {"comment", "vote", "delete_comment"}

\* the op types whose branch calls dirty_urls.add and Accounts.dirty
DirtiesUrl(op_type) == op_type \in {"comment", "vote"}

\* json_ops.append(op)
CollectJson(ops, op) == Append(ops, op)

CallOrderPostsFirst ==
    <<"Posts.register", "Accounts.register", "Posts.delete",
      "CustomOp.process_ops">>

\* the four calls that follow the loops
CallOrder ==
    <<"Accounts.register", "Posts.register", "Posts.delete",
      "CustomOp.process_ops">>

\* A call and its first argument: a set of names or a list of ops.
Call(callee, names, ops) == [callee |-> callee, names |-> names, ops |-> ops]

\* process_block(block) up to the loops: the INSERT INTO hive_blocks and the
\* five empty collections
BlockInsert ==
    /\ b_pc = "insert"
    /\ hive_blocks' = process_block(hive_blocks, b_block)
    /\ account_names' = {} /\ comment_ops' = <<>> /\ json_ops' = <<>>
    /\ delete_ops' = <<>> /\ dirty_urls' = {}
    /\ b_tx' = 1 /\ b_op' = 1
    /\ b_pc' = "scan"
    /\ UNCHANGED <<b_block, accounts_dirty, b_calls, b_result>>
    /\ UNCHANGED <<is_initial_sync, o_pc, ckVars, syncVars, listenVars,
                   cache_gap, trxVars, commVars, cacheVars, batchVars>>

\* one pass of the inner loop: op_type, op = operation and the if chain
ScanOp ==
    /\ b_pc = "scan"
    /\ b_tx <= Len(Txs)
    /\ b_op <= Len(Txs[b_tx].operations)
    /\ LET op == Txs[b_tx].operations[b_op]
           op_type == op.type
       IN /\ account_names' = IF op_type \in NamingOps
                                THEN account_names \cup {op.account}
                                ELSE account_names
          /\ comment_ops' = IF op_type = "comment" THEN Append(comment_ops, op)
                            ELSE comment_ops
          /\ delete_ops' = IF op_type = "delete_comment" THEN Append(delete_ops, op)
                           ELSE delete_ops
          /\ json_ops' = IF op_type = "custom_json" THEN CollectJson(json_ops, op)
                         ELSE json_ops
          /\ dirty_urls' = IF DirtiesUrl(op_type)
                             THEN dirty_urls \cup {Url(op.author, op.permlink)}
                             ELSE dirty_urls
          /\ accounts_dirty' = IF DirtiesUrl(op_type)
                                 THEN accounts_dirty \cup {op.author}
                                 ELSE accounts_dirty
    /\ b_op' = b_op + 1
    /\ UNCHANGED <<b_block, b_tx, b_calls, b_result, b_pc>>
    /\ UNCHANGED <<orchVars, commVars, cacheVars, batchVars>>

\* the inner loop is through: next tx of the outer loop
ScanNextTx ==
    /\ b_pc = "scan"
    /\ b_tx <= Len(Txs)
    /\ b_op > Len(Txs[b_tx].operations)
    /\ b_tx' = b_tx + 1
    /\ b_op' = 1
    /\ UNCHANGED <<b_block, account_names, comment_ops, json_ops, delete_ops,
                   dirty_urls, accounts_dirty, b_calls, b_result, b_pc>>
    /\ UNCHANGED <<orchVars, commVars, cacheVars, batchVars>>

\* Accounts.register(account_names, date), Posts.register(comment_ops, date),
\* Posts.delete(delete_ops), CustomOp.process_ops(json_ops, num, date): the
\* next of the four calls
BlockCall ==
    /\ b_pc = "scan"
    /\ b_tx > Len(Txs)
    /\ Len(b_calls) < Len(CallOrder)
    /\ LET callee == CallOrder[Len(b_calls) + 1] IN
       b_calls' = Append(b_calls,
          CASE callee = "Accounts.register" -> Call(callee, account_names, <<>>)
            [] callee = "Posts.register" -> Call(callee, {}, comment_ops)
            [] callee = "Posts.delete" -> Call(callee, {}, delete_ops)
            [] callee = "CustomOp.process_ops" -> Call(callee, {}, json_ops))
    /\ UNCHANGED <<b_block, b_tx, b_op, account_names, comment_ops, json_ops,
                   delete_ops, dirty_urls, accounts_dirty, b_result, b_pc>>
    /\ UNCHANGED <<orchVars, commVars, cacheVars, batchVars>>

\* return dirty_urls
BlockReturn ==
    /\ b_pc = "scan"
    /\ b_tx > Len(Txs)
    /\ Len(b_calls) = Len(CallOrder)
    /\ b_result' = dirty_urls
    /\ b_pc' = "done"
    /\ UNCHANGED <<b_block, b_tx, b_op, account_names, comment_ops, json_ops,
                   delete_ops, dirty_urls, accounts_dirty, b_calls>>
    /\ UNCHANGED <<orchVars, commVars, cacheVars, batchVars>>

\* process_block is called with a block on a store that holds block 1.
BlockInit ==
    /\ UpIdle /\ StreamIdle /\ RangeIdle /\ ExecIdle /\ OrchLocalsIdle
    /\ CommIdle /\ CacheIdle /\ BatchIdle
    /\ hive_blocks = StoredChain(1)
    /\ durable = hive_blocks
    /\ \E n \in 0..MaxBlockOps : \E ops \in [1..n -> BlockOpPool] :
         \E cut \in 0..n : b_block = ScanBlock(ops, cut)
    /\ b_tx = 0 /\ b_op = 0
    /\ account_names = {} /\ comment_ops = <<>> /\ json_ops = <<>>
    /\ delete_ops = <<>> /\ dirty_urls = {} /\ accounts_dirty = {}
    /\ b_calls = <<>> /\ b_result = {} /\ b_pc = "insert"

BlockNext ==
    \/ BlockInsert /\ UNCHANGED <<upVars, streamVars, rangeVars, execVars>>
    \/ ScanOp /\ UNCHANGED <<upVars, streamVars, rangeVars, execVars>>
    \/ ScanNextTx /\ UNCHANGED <<upVars, streamVars, rangeVars, execVars>>
    \/ BlockCall /\ UNCHANGED <<upVars, streamVars, rangeVars, execVars>>
    \/ BlockReturn /\ UNCHANGED <<upVars, streamVars, rangeVars, execVars>>

SpecBlock == BlockInit /\ [][BlockNext]_vars

\* ====================================================== cache_missing_posts
MaxPosts == 3        \* rows of hive_posts at the cache build
MaxRounds == 4       \* calls of cache_missing_posts that are followed

\* Row id of hive_posts, written by alice outside every community.
CachePost(id, deleted) ==
    [author |-> NameAlice, permlink |-> [k \in 1..id |-> "p"],
     community |-> NoCommunity, is_deleted |-> deleted, is_muted |-> FALSE,
     is_pinned |-> FALSE]

\* MAX over a set of ids, 0 for none
MaxId(ids) == IF ids = {} THEN 0 ELSE CHOOSE i \in ids : \A j \in ids : j <= i

\* Posts.last_id(): the highest id of hive_posts, over all rows or over the
\* rows that are not deleted
PostsLastId(posts, live) ==
    MaxId({i \in 1..Len(posts) : ~live \/ ~posts[i].is_deleted})

\* CachedPost.last_id(): the highest post_id of hive_posts_cache
CachedPostLastId(cache) == MaxId(cache)

\* select_missing_tuples(start_id): SELECT id, author, permlink FROM
\* hive_posts WHERE is_deleted = '0' AND id > :id ORDER BY id
select_missing_tuples(posts, start_id) ==
    {i \in 1..Len(posts) : ~posts[i].is_deleted /\ i > start_id}

\* CachedPost.update_batch(missing, adapter): a row for every post of the
\* batch; a post the node returns nothing for is removed from the batch
UpdateBatch(cache, tuples, lost) == cache \cup (tuples \ lost)

\* gap = last_post_id - last_cached_id
Gap == PostsLastId(hive_posts, last_id_live) - CachedPostLastId(hive_posts_cache)

\* if not gap: return
CacheReturn ==
    /\ cm_pc = "check"
    /\ Gap = 0
    /\ cm_pc' = "returned"
    /\ UNCHANGED <<hive_posts_cache, unfetchable, last_id_live, cm_rounds>>
    /\ UNCHANGED <<orchVars, commVars, blockVars, batchVars>>

\* missing = select_missing_tuples(last_cached_id); CachedPost.update_batch(
\* missing, get_adapter()); cache_missing_posts()
CacheRound ==
    /\ cm_pc = "check"
    /\ Gap # 0
    /\ cm_rounds < MaxRounds
    /\ hive_posts_cache' =
         UpdateBatch(hive_posts_cache,
                     select_missing_tuples(hive_posts,
                                           CachedPostLastId(hive_posts_cache)),
                     unfetchable)
    /\ cm_rounds' = cm_rounds + 1
    /\ UNCHANGED <<unfetchable, last_id_live, cm_pc>>
    /\ UNCHANGED <<orchVars, commVars, blockVars, batchVars>>

\* cache_missing_posts() is called after an initial sync: hive_posts holds
\* posts, some deleted, hive_posts_cache is empty, and the node has no content
\* for some of the posts.
CacheInit ==
    /\ UpIdle /\ StreamIdle /\ RangeIdle /\ ExecIdle /\ OrchLocalsIdle
    /\ BlockIdle /\ BatchIdle
    /\ hive_blocks = StoredChain(1)
    /\ durable = hive_blocks
    /\ accounts = <<NameAlice>>
    /\ hive_communities = <<>> /\ hive_roles = <<>>
    /\ c_last = NoOp
    /\ hive_subscriptions = <<>> /\ hive_flags = <<>>
    /\ c_op = NoCommunityOp
    /\ post_check = NoPostCheck
    /\ \E n \in 0..MaxPosts : \E deleted \in [1..n -> BOOLEAN] :
         hive_posts = [i \in 1..n |-> CachePost(i, deleted[i])]
    /\ hive_posts_cache = {}
    /\ unfetchable \in SUBSET {i \in 1..Len(hive_posts) : ~hive_posts[i].is_deleted}
    /\ last_id_live \in BOOLEAN
    /\ cm_rounds = 0
    /\ cm_pc = "check"

CacheNext ==
    \/ CacheReturn /\ UNCHANGED <<upVars, streamVars, rangeVars, execVars>>
    \/ CacheRound /\ UNCHANGED <<upVars, streamVars, rangeVars, execVars>>

SpecCache == CacheInit /\ [][CacheNext]_vars

\* ================================================ the batches of a sync
MaxSpan == 2100      \* blocks a file or the upstream holds beyond the head

CheckpointChunk == 250   \* sync_from_file(path, skip_lines, 250)
SyncRange == 1000        \* to = min(lbound + 1000, ubound)

SyncBatchEndInclusive(lo, end) == Min(lo + SyncRange, end) + 1

\* partition_all(chunk_size, remaining): the next batch is the next
\* chunk_size lines, or those that are left
FileBatchEnd(lo, end) == Min(lo + CheckpointChunk, end)

\* to = min(lbound + 1000, ubound)
SyncBatchEnd(lo, end) == Min(lo + SyncRange, end)

\* sync_from_file: process_blocks(map(json.loads, batch), True)
FileBatch ==
    /\ bt_mode = "file"
    /\ bt_next < bt_end
    /\ bt_batch' = [lo |-> bt_next, hi |-> FileBatchEnd(bt_next, bt_end)]
    /\ bt_next' = bt_batch'.hi
    /\ UNCHANGED <<bt_mode, bt_end>>
    /\ UNCHANGED <<orchVars, commVars, blockVars, cacheVars>>

\* sync_from_steemd: blocks = steemd.get_blocks_range(lbound, to);
\* process_blocks(blocks, is_initial_sync); lbound = to
SteemdBatch ==
    /\ bt_mode = "steemd"
    /\ bt_next < bt_end
    /\ bt_batch' = [lo |-> bt_next, hi |-> SyncBatchEnd(bt_next, bt_end)]
    /\ bt_next' = bt_batch'.hi
    /\ UNCHANGED <<bt_mode, bt_end>>
    /\ UNCHANGED <<orchVars, commVars, blockVars, cacheVars>>

\* the for loop of sync_from_file or the while loop of sync_from_steemd ends
BatchesDone ==
    /\ bt_mode \in {"file", "steemd"}
    /\ bt_next >= bt_end
    /\ bt_mode' = "done"
    /\ UNCHANGED <<bt_next, bt_end, bt_batch>>
    /\ UNCHANGED <<orchVars, commVars, blockVars, cacheVars>>

\* sync_from_file is called on a file whose lines left after the skip are the
\* blocks bt_next .. bt_end - 1; sync_from_steemd computes lbound =
\* db_last_block() + 1 and ubound = last_irreversible_block_num().
BatchInit ==
    /\ UpIdle /\ StreamIdle /\ RangeIdle /\ ExecIdle /\ OrchLocalsIdle
    /\ CommIdle /\ BlockIdle /\ CacheIdle
    /\ hive_blocks = StoredChain(1)
    /\ durable = hive_blocks
    /\ bt_mode \in {"file", "steemd"}
    /\ bt_next = db_last_block(hive_blocks) + 1
    /\ bt_end \in 1..(bt_next + MaxSpan)
    /\ bt_batch = [lo |-> bt_next, hi |-> bt_next]

BatchNext ==
    \/ FileBatch /\ UNCHANGED <<upVars, streamVars, rangeVars, execVars>>
    \/ SteemdBatch /\ UNCHANGED <<upVars, streamVars, rangeVars, execVars>>
    \/ BatchesDone /\ UNCHANGED <<upVars, streamVars, rangeVars, execVars>>

SpecBatch == BatchInit /\ [][BatchNext]_vars

\* ------------------------------------------------------ claims: stream_blocks

\* C1: the blocks accepted so far (those yielded, then those in the queue) are
\* numbered start_from, start_from + 1, ... without gap or repeat; the queue
\* never holds more than trail_blocks blocks (no block is yielded late), and
\* once a block has been yielded it holds exactly trail_blocks (none is yielded
\* early): block n is yielded in the step that accepts block n + trail_blocks.
C1_YieldsInOrderDelayed ==
    LET acc == yielded \o queue IN
    /\ \A i \in 1..Len(acc) : BlockNum(acc[i]) = start_from + i - 1
    /\ Len(queue) <= trail_blocks
    /\ yielded # <<>> => Len(queue) = trail_blocks
    /\ s_pc = "yielded" =>
          last.num = BlockNum(yielded[Len(yielded)]) + trail_blocks

C1_Witness ==
    /\ s_pc = "yielded"
    /\ trail_blocks = 2
    /\ Len(yielded) >= 1
    /\ last.num = start_from + 2

\* C2: a step of the stream taken with a fetched block whose `previous` differs
\* from last.hash ends the stream: by returning when the queue is non-empty,
\* by raising when it is empty; nothing is yielded or buffered by that step,
\* and every yielded block links to the one yielded before it.
C2_UnlinkedBlockAborts ==
    /\ [][(/\ s_pc = "got"
           /\ block # Empty
           /\ block.previous # last.hash
           /\ streamVars' # streamVars)
          => /\ s_pc' = (IF queue # <<>> THEN "fork_return" ELSE "fork_raise")
             /\ yielded' = yielded
             /\ queue' = queue]_vars
    /\ [](\A i \in 2..Len(yielded) : yielded[i].previous = yielded[i-1].block_id)
    /\ [](s_pc \in {"fork_return", "fork_raise"} =>
             \A i \in 1..Len(yielded) : yielded[i] # block)

C2_Witness ==
    /\ s_pc = "fork_return"
    /\ queue # <<>>
    /\ yielded # <<>>
    /\ block.previous # last.hash

C2_WitnessRaise ==
    /\ s_pc = "fork_raise"
    /\ queue = <<>>
    /\ block.previous # last.hash

\* C3: for max_gap >= 1, no block is fetched or yielded while
\* head_num - last.num > max_gap, and a state where the gap exceeds max_gap is
\* the returned stream (or the stream before its first check of the gap).
C3_GapAborts ==
    max_gap >= 1 =>
      /\ s_pc \in {"fetch", "got", "yielded"} => head_num - last.num <= max_gap
      /\ head_num - last.num > max_gap =>
            \/ s_pc = "gap_return"
            \/ /\ s_pc \in {"top", "slots"}
               /\ head_num = start_head
               /\ last.num = start_from - 1
               /\ yielded = <<>> /\ queue = <<>>

C3_Witness ==
    /\ s_pc = "gap_return"
    /\ max_gap >= 1
    /\ yielded # <<>>
    /\ head_num - last.num = max_gap + 1

\* --------------------------------------------------- claims: get_blocks_range

\* C6: get_blocks_range returns only when every number of [lbound, ubound) has
\* been received; the list returned holds ubound - lbound blocks, the i-th
\* numbered lbound + i - 1, whatever the batch calls brought back; and every
\* batch call asks for exactly the numbers not received before it.
C6_RangeComplete ==
    /\ [](r_pc = "done" =>
            /\ Required(lbound, ubound) \subseteq DOMAIN blocks
            /\ Len(result) = ubound - lbound
            /\ \A i \in 1..Len(result) :
                  /\ "block_id" \in DOMAIN result[i]
                  /\ BlockNum(result[i]) = lbound + i - 1)
    /\ [][asked' # asked \/ blocks' # blocks =>
            asked' = Required(lbound, ubound) \ DOMAIN blocks]_vars

C6_Witness ==
    /\ r_pc = "done"
    /\ ubound - lbound = 2
    /\ asked # Required(lbound, ubound)
    /\ \E n \in DOMAIN blocks : n \notin Required(lbound, ubound)

\* ------------------------------------------------- claims: __exec, __exec_batch

\* C7: in a single call (__exec), every RPCError and, for a method other than
\* get_block, every empty response was followed by a retry, so the call has
\* not returned on it and returns no empty result; for get_block an empty
\* response is the last one of the call: it is returned at once, no retry
\* (and no sleep) following it.
C7_ExecRetriesButGetBlock ==
    ~IsBatch(e_api) /\ e_api \in Apis =>
      /\ e_pc \in {"checked", "returned", "raised"} /\ e_api # "get_block"
            => e_result # "empty"
      /\ e_pc \in {"checked", "returned", "raised"} => ~Raises(e_result)
      /\ \A i \in 1..Len(e_log) :
            /\ e_log[i] = "RPCError" \/ (e_log[i] = "empty" /\ e_api # "get_block")
                  => i <= e_tries /\ Len(e_sleeps) >= i
            /\ e_log[i] = "empty" /\ e_api = "get_block"
                  => /\ i = Len(e_log)
                     /\ e_pc \in {"checked", "returned"}
                     /\ e_result = "empty"
                     /\ e_tries = i - 1
                     /\ Len(e_sleeps) = i - 1

C7_Witness ==
    /\ e_api = "get_block"
    /\ e_pc = "returned"
    /\ e_result = "empty"
    /\ e_log = <<"RPCError", "empty">>

C7_WitnessOther ==
    /\ e_api = "get_accounts"
    /\ e_pc = "returned"
    /\ e_log = <<"empty", "RPCError", "ok">>

\* C8 (as claimed): no call of the client ends by raising on a transport error
\* or on a response of the wrong shape.
C8_NeverSurfaces == e_pc # "raised"

\* ------------------------------------------------------ claims: orchestrator

\* C4: the rows of hive_blocks, in the order of their insertion, are numbered
\* 1, 2, 3, ...: each block was inserted with num = stored head + 1, none
\* skipped, none applied twice -- through checkpoint replay, fast-sync,
\* live-tail, the returns from live-tail to fast-sync, and restarts.
C4_AppliedInNumOrder ==
    \A i \in 1..Len(hive_blocks) : hive_blocks[i].num = i

C4_Witness ==
    /\ o_pc = "sync_loop"
    /\ files # {}
    /\ last_hash # NoHash
    /\ Len(hive_blocks) >= 5
    /\ \E i \in 1..Len(hive_blocks) : hive_blocks[i].hash[2] = 1

\* C5 (as claimed): every stored block with num > 1 follows a stored block
\* with num - 1 whose hash is its prev.
C5_StoredBlocksLinked ==
    \A i \in 1..Len(hive_blocks) :
        hive_blocks[i].num > 1 =>
            \E j \in 1..Len(hive_blocks) :
                /\ hive_blocks[j].num = hive_blocks[i].num - 1
                /\ hive_blocks[i].prev = hive_blocks[j].hash

\* C9 (as claimed): when sync_from_steemd has returned, the stored head is the
\* last irreversible block number it read, if that was above the stored head.
C9_SyncedToLastIrreversible ==
    o_pc \in {"cache_missing", "payouts"} /\ sync_ubound > sync_first - 1
        => db_last_block(hive_blocks) = sync_ubound

\* C10: with the directory in the documented format, a file is opened only if
\* its number is above the stored head; skip_lines is then the stored head
\* minus the number of the file before it, the lines left are exactly the
\* blocks head + 1 .. N, and when the file is done the stored head is N (which
\* the loader's last_block then equals); once the directory is done, the
\* stored head is at or above every file.
C10_CheckpointSkip ==
    WellFormedDir(files) =>
      /\ o_pc = "ck_file" =>
            LET f == Head(ck_todo)
                head == db_last_block(hive_blocks) IN
            /\ last_block < f.num
            /\ skip_lines = last_block - PrevFileNum(files, f.num)
            /\ head >= last_block
            /\ remaining = [i \in 1..(f.num - head) |-> ChainBlock(0, head + i)]
      /\ o_pc = "ck_loop" => last_block = db_last_block(hive_blocks)
      /\ o_pc = "ck_loop" /\ ck_todo = <<>> =>
            \A f \in files : f.num <= db_last_block(hive_blocks)
      /\ o_pc \in {"ck_loop", "ck_file"} =>
            \A i \in 1..Len(hive_blocks) : hive_blocks[i].num = i

C10_Witness ==
    /\ o_pc = "ck_file"
    /\ skip_lines = 1
    /\ last_read = 1
    /\ Head(ck_todo).num = 3
    /\ remaining = <<>>
    /\ db_last_block(hive_blocks) = 3

\* C11 (as claimed): whenever the loader opens a file whose lines are the
\* blocks stored head + 1 .. N (S4: head 500, file 1000 holding 501..1000), it
\* skips 0 lines and processes all of them, whatever else is in the directory.
C11_S4SkipsNoLine ==
    [][/\ o_pc = "ck_loop" /\ o_pc' = "ck_file"
       /\ last_block >= 1
       /\ last_block = db_last_block(hive_blocks)
       /\ Head(ck_todo).first = last_block + 1
       => /\ skip_lines' = 0
          /\ remaining' = Lines(Head(ck_todo))]_vars

\* C11 (amended): the same, when the file before it in the directory is the
\* one numbered as the stored head (S4: 500.json.lst is present); with no
\* lower file, the loader skips as many lines as the stored head (S4: all 500
\* lines, so no block of the file is processed).
C11_S4SkipsNoLineAfterLowerFile ==
    [][/\ o_pc = "ck_loop" /\ o_pc' = "ck_file"
       /\ last_block >= 1
       /\ last_block = db_last_block(hive_blocks)
       /\ Head(ck_todo).first = last_block + 1
       => IF PrevFileNum(files, Head(ck_todo).num) = last_block
            THEN /\ skip_lines' = 0
                 /\ remaining' = Lines(Head(ck_todo))
            ELSE /\ skip_lines' = last_block - PrevFileNum(files, Head(ck_todo).num)
                 /\ remaining' = Drop(skip_lines', Lines(Head(ck_todo)))]_vars

\* S4 scaled: stored head 1, the file 2 holding block 2, the file 1 present;
\* the file is open with no line skipped and its block to process.
C11_Witness ==
    /\ o_pc = "ck_file"
    /\ db_last_block(hive_blocks) = 1
    /\ Head(ck_todo) = [num |-> 2, first |-> 2]
    /\ [num |-> 1, first |-> 1] \in files
    /\ skip_lines = 0
    /\ remaining = <<ChainBlock(0, 2)>>

\* S4 scaled, with no lower file: the one line of the file has been skipped.
C11_WitnessNoLowerFile ==
    /\ o_pc = "ck_file"
    /\ db_last_block(hive_blocks) = 1
    /\ files = {[num |-> 2, first |-> 2]}
    /\ skip_lines = 1
    /\ remaining = <<>>

C13_SteadyStateCycle ==
    [][~is_initial_sync /\ o_pc' # o_pc =>
         /\ o_pc' = "listen" => o_pc = "payouts"
         /\ o_pc' = "payouts" =>
               o_pc = "sync_loop" /\ ~(sync_lbound < sync_ubound)
         /\ InListen(o_pc) /\ ~InListen(o_pc') /\ ~in_trx => o_pc' = "sync"]_vars

\* C14 (as claimed): when a start that is not an initial sync enters the
\* steady-state loop, the stored head block has been verified against the
\* upstream (and the store truncated on a mismatch): its hash is the hash of
\* the upstream block of that number.
C14_HeadVerifiedOnRecovery ==
    [][/\ ~is_initial_sync
       /\ o_pc = "cache_missing" /\ o_pc' = "sync"
       /\ hive_blocks' # <<>>
       => hive_blocks'[Len(hive_blocks')].hash =
             GetBlock(db_last_block(hive_blocks')).block_id]_vars

\* C15: in listen_steemd no transaction is open while the next block is
\* awaited and fetched; process_block runs inside the transaction opened for
\* its block, which holds that one block only; and COMMIT is sent only when
\* process_block and then the dirty-post flush, the payout sweep, the Accounts
\* flush and the follow flush have all been done for the block.
C15_OneTransactionPerBlock ==
    /\ [](/\ o_pc \in {"listen", "listen_top", "listen_gap", "listen_fetch"}
               => ~in_trx
          /\ o_pc = "listen_trx" =>
               /\ in_trx
               /\ Len(hive_blocks) <= Len(trx_base) + 1
               /\ Len(SelectSeq(trx_log, LAMBDA e : e = "process_block")) <= 1)
    /\ [][InListen(o_pc) =>
            /\ hive_blocks' # hive_blocks =>
                  in_trx /\ in_trx' /\ trx_log = <<>> /\ trx_base = hive_blocks
            /\ in_trx /\ ~in_trx' =>
                  /\ trx_log = <<"process_block", "cache_dirty_posts",
                                 "cache_paidout_posts", "Accounts.cache_dirty",
                                 "Accounts.cache_dirty_follows">>
                  /\ hive_blocks = process_block(trx_base, listen_block)
                  /\ BlockNum(listen_block) = curr_block
                  /\ durable' = hive_blocks]_vars

C15_Witness ==
    /\ o_pc = "listen_top"
    /\ ~in_trx
    /\ last_hash # NoHash
    /\ durable = hive_blocks
    /\ Len(hive_blocks) = Len(trx_base) + 1
    /\ curr_block = db_last_block(hive_blocks)

\* C16: while a transaction is open, and after a failure inside it, what is
\* committed is the store as it was at START TRANSACTION; when the process
\* that failed is gone, the store is that state again: no row written by the
\* blocks processed part-way is left.
C16_AbortLeavesStore ==
    /\ [](in_trx => durable = trx_base)
    /\ [][o_pc = "raised" /\ in_trx /\ o_pc' # o_pc =>
            hive_blocks' = trx_base /\ durable' = trx_base]_vars

C16_Witness ==
    /\ o_pc = "raised"
    /\ in_trx
    /\ trx_log = <<>>
    /\ Len(hive_blocks) > Len(trx_base)
    /\ ~is_initial_sync

C16_WitnessLive ==
    /\ o_pc = "raised"
    /\ in_trx
    /\ Len(trx_log) >= 2
    /\ Len(hive_blocks) > Len(trx_base)

\* -------------------------------------------------------- claims: the store
\* C17: applying a block that the store already holds changes nothing and
\* raises no error: no second hive_blocks row, no second community or role
\* row, the same accounts.
C17_ApplyIsIdempotent ==
    [][\A n \in 1..MaxStoreBlocks :
          (/\ StoreApplyBlock(n)
           /\ \E row \in 1..Len(hive_blocks) : hive_blocks[row].num = n)
          => /\ c_last'.ok
             /\ hive_blocks' = hive_blocks
             /\ accounts' = accounts
             /\ hive_communities' = hive_communities
             /\ hive_roles' = hive_roles]_vars

\* C18: the communities are exactly the registered accounts whose name
\* matches hive-[123]\d{4,6}; each has the id of its account, the digit
\* name[5] as type_id, and in every reachable state a role row
\* (community_id = id, account_id = id, role_id = owner).
C18_OwnerRolePerCommunity ==
    /\ \A a \in 1..Len(accounts) :
          IsCommunityName(accounts[a]) <=>
             \E c \in 1..Len(hive_communities) :
                 hive_communities[c].name = accounts[a]
    /\ \A c \in 1..Len(hive_communities) :
          LET community == hive_communities[c] IN
          /\ community.id = AccountsGetId(accounts, community.name)
          /\ community.type_id = DigitValue(community.name[6])
          /\ \E r \in 1..Len(hive_roles) :
                /\ hive_roles[r].community_id = community.id
                /\ hive_roles[r].account_id = community.id
                /\ hive_roles[r].role_id = 8

\* ------------------------------------------------------ claims: setRole ops
\* C19: a setRole op whose community, account and role are read without
\* error passes validation exactly when the actor's role is mod or higher,
\* is above the new role and, for a target other than the actor, is above the
\* target's role, which differs from the new role; an account without a role
\* row has role 0 (guest).
C19_SetRolePermission ==
    \A actor \in OpActors, community \in OpCommunities,
       account \in OpAccounts, role \in RoleNames :
       (/\ AccountsExists(accounts, actor)
        /\ SchemaAccepts(accounts, hive_communities, community, account, role))
       => LET community_id == CommunityGetId(hive_communities, community)
              RowsOf(name) ==
                  {r \in 1..Len(hive_roles) :
                      /\ hive_roles[r].community_id = community_id
                      /\ hive_roles[r].account_id = AccountsGetId(accounts, name)}
              RoleOf(name) ==
                  IF RowsOf(name) = {} THEN 0
                  ELSE hive_roles[CHOOSE r \in RowsOf(name) : TRUE].role_id
              new_role == RoleId(role)
          IN ValidateSetRole(accounts, hive_communities, hive_roles,
                             actor, community, account, role) <=>
                /\ RoleOf(actor) >= 4
                /\ RoleOf(actor) > new_role
                /\ account # actor =>
                     /\ RoleOf(account) < RoleOf(actor)
                     /\ RoleOf(account) # new_role

\* A setRole op was applied in a community where a mod and a member, both
\* with a role row, stand beside the owner.
C19_Witness ==
    /\ c_last = [kind |-> "setRole", ok |-> TRUE]
    /\ GetUserRole(hive_roles, 1, 1) = 8
    /\ \E r \in 1..Len(hive_roles) :
          /\ hive_roles[r].community_id = 1 /\ hive_roles[r].account_id = 2
          /\ hive_roles[r].role_id = 4
    /\ \E r \in 1..Len(hive_roles) :
          /\ hive_roles[r].community_id = 1 /\ hive_roles[r].account_id = 3
          /\ hive_roles[r].role_id = 2

\* C20 (scenario S3): a setRole op to role mod that names a registered account
\* with no role row in the community succeeds when its actor is an owner, and
\* the account's role is 4 afterwards; sent by a guest it is dropped and no
\* role changes.
C20_S3OwnerMakesGuestMod ==
    [][\A actor \in OpActors, account \in OpAccounts :
          LET community_id == CommunityGetId(hive_communities, NameTopic)
              actor_id == AccountsGetId(accounts, actor)
              account_id == AccountsGetId(accounts, account)
              actor_role == GetUserRole(hive_roles, community_id, actor_id)
          IN (/\ AccountsExists(accounts, account)
              /\ account # actor
              /\ actor_role \in {0, 8}
              /\ \A r \in 1..Len(hive_roles) :
                    ~(/\ hive_roles[r].community_id = community_id
                      /\ hive_roles[r].account_id = account_id)
              /\ StoreSetRole(actor, NameTopic, account, "mod"))
             => /\ actor_role = 8 =>
                     /\ c_last'.ok
                     /\ GetUserRole(hive_roles', community_id, account_id) = 4
                /\ actor_role = 0 =>
                     /\ ~c_last'.ok
                     /\ hive_roles' = hive_roles]_vars

\* ---------------------------------------------------- claims: community ops
\* C21: an updateSettings op is applied, or changes any table, only when its
\* actor's role in the community is at least admin (6); a setUserTitle,
\* mutePost, unmutePost, pinPost or unpinPost op only when it is at least mod
\* (4); a flagPost op only when it is above muted (-2).
C21_RoleThresholds ==
    [][(/\ c_op # NoCommunityOp
        /\ c_op' = NoCommunityOp
        /\ RawOpError(c_op.raw) = "none"
        /\ c_last'.ok \/ Tables' # Tables)
       => LET action == c_op.raw.elems[1].str
              params == c_op.raw.elems[2].dict
              actor_role ==
                  GetUserRole(hive_roles,
                      CommunityGetId(hive_communities, params["community"].val),
                      AccountsGetId(accounts, c_op.actor))
          IN /\ action = "updateSettings" => actor_role >= 6
             /\ action \in {"setUserTitle", "mutePost", "unmutePost",
                            "pinPost", "unpinPost"} => actor_role >= 4
             /\ action = "flagPost" => actor_role > -2]_vars

\* An admin's updateSettings op was applied.
C21_Witness ==
    /\ c_last = [kind |-> "updateSettings", ok |-> TRUE]
    /\ hive_communities[1].settings = SettingsText
    /\ GetUserRole(hive_roles, 1, 2) = 6

\* C22: after any sequence of subscribe and unsubscribe ops the subscribers
\* counter of every community is the number of its hive_subscriptions rows,
\* and is not negative; no account is subscribed twice.
C22_SubscribersCountRows ==
    /\ \A c \in 1..Len(hive_communities) :
          /\ hive_communities[c].subscribers >= 0
          /\ hive_communities[c].subscribers =
                Cardinality({i \in 1..Len(hive_subscriptions) :
                    hive_subscriptions[i].community_id = hive_communities[c].id})
    /\ \A i, j \in 1..Len(hive_subscriptions) :
          hive_subscriptions[i] = hive_subscriptions[j] => i = j

\* C23: a mutePost, unmutePost, pinPost, unpinPost or flagPost op changes a
\* post, or adds a flag, only for the post stored under the account and
\* permlink it names and only when that post's community is the community it
\* names; when there is no such post the op is not applied and no table
\* changes.
C23_PostOfNamedCommunity ==
    [][(/\ c_op # NoCommunityOp
        /\ c_op' = NoCommunityOp
        /\ RawOpError(c_op.raw) = "none"
        /\ c_op.raw.elems[1].str \in PostActions)
       => LET params == c_op.raw.elems[2].dict
              named == {i \in 1..Len(hive_posts) :
                          /\ hive_posts[i].author = params["account"].val
                          /\ hive_posts[i].permlink = params["permlink"].val
                          /\ hive_posts[i].community = params["community"].val}
          IN /\ \A i \in 1..Len(hive_posts) :
                   hive_posts'[i] # hive_posts[i] => i \in named
             /\ Len(hive_posts') = Len(hive_posts)
             /\ hive_flags' # hive_flags => named # {}
             /\ named = {} => ~c_last'.ok /\ Tables' = Tables]_vars

\* A mutePost op naming alice's post in its own community was applied.
C23_Witness ==
    /\ c_last = [kind |-> "mutePost", ok |-> TRUE]
    /\ hive_posts[1].is_muted
    /\ hive_posts[1].community = NameTopic
    /\ ~hive_posts[2].is_muted /\ ~hive_posts[3].is_muted

\* C24: is_post_valid is true exactly when, for a root post in a journal
\* community (type 2) and for any post or comment in a council community
\* (type 3), the author's role is at least member (2), and otherwise (topic,
\* type 1, and comments in a journal) the author is not muted (role above
\* -2); so a muted author is valid nowhere.
C24_PostValidity ==
    post_check # NoPostCheck =>
      LET community == CHOOSE c \in 1..Len(hive_communities) :
                           hive_communities[c].name = post_check.community
          author_id == CHOOSE a \in 1..Len(accounts) :
                           accounts[a] = post_check.author
          rows == {r \in 1..Len(hive_roles) :
                      /\ hive_roles[r].community_id = hive_communities[community].id
                      /\ hive_roles[r].account_id = author_id}
          role == IF rows = {} THEN 0
                  ELSE hive_roles[CHOOSE r \in rows : TRUE].role_id
          type_id == hive_communities[community].type_id
          root == post_check.parent_author = <<>>
      IN /\ (type_id = 2 /\ root) => (post_check.valid <=> role >= 2)
         /\ type_id = 3 => (post_check.valid <=> role >= 2)
         /\ (type_id = 1 \/ (type_id = 2 /\ ~root)) =>
               (post_check.valid <=> role > -2)
         /\ role = -2 => ~post_check.valid

\* A muted author's comment in a journal community was found not valid.
C24_Witness ==
    /\ post_check = [community |-> NameJournal, author |-> NameAlice,
                     parent_author |-> NameAlice, valid |-> FALSE]
    /\ GetUserRole(hive_roles, 2, 4) = -2

\* C25: an op with a bad envelope, with keys other than those of its action,
\* naming no registered community, account or post, or sent by an actor whose
\* role is below the one its action needs, is dropped: no table changes, the
\* block is not aborted and the next op can be handled.
C25_InvalidOpDropped ==
    [][(/\ c_op # NoCommunityOp
        /\ c_op' = NoCommunityOp
        /\ LET raw == c_op.raw IN
           IF \/ ~raw.is_list
              \/ Len(raw.elems) # 2 THEN TRUE
           ELSE IF \/ raw.elems[1].type # "str"
                   \/ raw.elems[2].type # "dict"
                   \/ raw.elems[1].str \notin Actions THEN TRUE
           ELSE LET action == raw.elems[1].str
                    params == raw.elems[2].dict
                    community == {c \in 1..Len(hive_communities) :
                        hive_communities[c].name = params["community"].val}
                    role == IF community = {} THEN 0
                            ELSE GetUserRole(hive_roles,
                                     hive_communities[CHOOSE c \in community : TRUE].id,
                                     AccountsGetId(accounts, c_op.actor))
                IN \/ {k \in AllKeys : params[k] # Absent} # SCHEMA(action)
                   \/ community = {}
                   \/ /\ "account" \in SCHEMA(action)
                      /\ \A a \in 1..Len(accounts) : accounts[a] # params["account"].val
                   \/ /\ "permlink" \in SCHEMA(action)
                      /\ \A i \in 1..Len(hive_posts) :
                            \/ hive_posts[i].author # params["account"].val
                            \/ hive_posts[i].permlink # params["permlink"].val
                   \/ action = "updateSettings" /\ role < 6
                   \/ /\ action \in {"setRole", "setUserTitle", "mutePost",
                                     "unmutePost", "pinPost", "unpinPost"}
                      /\ role < 4
                   \/ action = "flagPost" /\ role <= -2)
       => /\ Tables' = Tables
          /\ c_last' = DroppedOutcome
          /\ o_pc' = o_pc]_vars

\* An op was dropped in a store that earlier ops had changed.
C25_Witness ==
    /\ c_last = DroppedOutcome
    /\ c_op = NoCommunityOp
    /\ hive_posts[1].is_pinned
    /\ hive_communities[1].settings = SettingsText

\* C26: an op passes validation only if it is a list of two elements, an
\* action name among the ten known ones and a dict whose keys are exactly the
\* keys required for that action; an op with a missing or an extra key is
\* dropped.
C26_StructuralValidation ==
    [][(/\ c_op # NoCommunityOp
        /\ c_op' = NoCommunityOp
        /\ c_last'.kind # "dropped")
       => /\ c_op.raw.is_list
          /\ Len(c_op.raw.elems) = 2
          /\ c_op.raw.elems[1].type = "str"
          /\ c_op.raw.elems[2].type = "dict"
          /\ LET action == c_op.raw.elems[1].str
                 keys == {k \in AllKeys : c_op.raw.elems[2].dict[k] # Absent}
             IN \/ action = "updateSettings" /\ keys = {"community", "settings"}
                \/ action \in {"subscribe", "unsubscribe"} /\ keys = {"community"}
                \/ action = "setRole" /\ keys = {"community", "account", "role"}
                \/ action = "setUserTitle" /\ keys = {"community", "title"}
                \/ /\ action \in {"mutePost", "unmutePost", "flagPost"}
                   /\ keys = {"community", "account", "permlink", "notes"}
                \/ /\ action \in {"pinPost", "unpinPost"}
                   /\ keys = {"community", "account", "permlink"}]_vars

\* A setRole op with exactly its three keys passed validation and was applied.
C26_Witness ==
    /\ c_last = [kind |-> "setRole", ok |-> TRUE]
    /\ c_op = NoCommunityOp
    /\ \E i \in 1..Len(hive_roles) :
         hive_roles[i].account_id = 2 /\ hive_roles[i].role_id = ROLE_MEMBER

\* C30: an applied pinPost finds its post not pinned and leaves it pinned, an
\* applied unpinPost finds it pinned and leaves it not pinned, and nothing else
\* changes is_pinned, so the applied pin and unpin ops on a post alternate; a
\* pinPost on a pinned post and an unpinPost on a post that is not pinned are
\* dropped and leave the posts as they were.
C30_PinUnpinAlternate ==
    [][(c_op # NoCommunityOp /\ c_op' = NoCommunityOp) =>
         LET wellFormed == RawOpError(c_op.raw) = "none"
             action == IF wellFormed THEN c_op.raw.elems[1].str ELSE "invalid"
             params == IF wellFormed THEN c_op.raw.elems[2].dict ELSE NoParams
             named == {i \in 1..Len(hive_posts) :
                         /\ hive_posts[i].author = params["account"].val
                         /\ hive_posts[i].permlink = params["permlink"].val}
             changed == {i \in 1..Len(hive_posts) :
                           hive_posts'[i].is_pinned # hive_posts[i].is_pinned}
         IN /\ Len(hive_posts') = Len(hive_posts)
            /\ c_last' = [kind |-> "pinPost", ok |-> TRUE] =>
                 /\ named # {}
                 /\ \A i \in named : ~hive_posts[i].is_pinned /\ hive_posts'[i].is_pinned
            /\ c_last' = [kind |-> "unpinPost", ok |-> TRUE] =>
                 /\ named # {}
                 /\ \A i \in named : hive_posts[i].is_pinned /\ ~hive_posts'[i].is_pinned
            /\ changed # {} =>
                 /\ c_last'.ok
                 /\ c_last'.kind \in {"pinPost", "unpinPost"}
                 /\ changed = named
            /\ (action = "pinPost" /\ \E i \in named : hive_posts[i].is_pinned) =>
                 c_last' = DroppedOutcome /\ hive_posts' = hive_posts
            /\ (action = "unpinPost" /\ \E i \in named : ~hive_posts[i].is_pinned) =>
                 c_last' = DroppedOutcome /\ hive_posts' = hive_posts]_vars

\* A post was pinned and then unpinned by a moderator.
C30_Witness ==
    /\ c_last = [kind |-> "unpinPost", ok |-> TRUE]
    /\ ~hive_posts[1].is_pinned
    /\ GetUserRole(hive_roles, 1, 2) >= ROLE_MOD

\* ----------------------------------------------------- claims: process_block
\* C28: whatever the order of the operations in the block, the calls after
\* the loops are Accounts.register with all the names the block carries, then
\* Posts.register, then Posts.delete, then CustomOp.process_ops, and the
\* custom_json ops are handed over in document order: by transaction, then
\* by position in the transaction.
C28_CallOrder ==
    LET positions(types) ==
            {p \in (1..Len(Txs)) \X (1..MaxBlockOps) :
                /\ p[2] <= Len(Txs[p[1]].operations)
                /\ Txs[p[1]].operations[p[2]].type \in types}
        before(p, q) == p[1] < q[1] \/ (p[1] = q[1] /\ p[2] < q[2])
        at(p) == Txs[p[1]].operations[p[2]]
        jsons == positions({"custom_json"})
    IN /\ Len(b_calls) <= 4
       /\ Len(b_calls) >= 1 =>
            /\ b_calls[1].callee = "Accounts.register"
            /\ b_calls[1].names =
                 {at(p).account : p \in positions({"pow", "pow2", "account_create",
                                          "account_create_with_delegation"})}
       /\ Len(b_calls) >= 2 => b_calls[2].callee = "Posts.register"
       /\ Len(b_calls) >= 3 => b_calls[3].callee = "Posts.delete"
       /\ Len(b_calls) >= 4 =>
            /\ b_calls[4].callee = "CustomOp.process_ops"
            /\ Len(b_calls[4].ops) = Cardinality(jsons)
            /\ \A p \in jsons :
                 b_calls[4].ops[1 + Cardinality({q \in jsons : before(q, p)})] = at(p)
       /\ b_pc = "done" => Len(b_calls) = 4

\* process_block returned for a block whose first operation is a custom_json,
\* followed by an account creation, with a different custom_json in the second
\* transaction.
C28_Witness ==
    /\ b_pc = "done"
    /\ Len(Txs[1].operations) = 2
    /\ Txs[1].operations[1].type = "custom_json"
    /\ Txs[1].operations[2].type = "account_create"
    /\ Len(Txs[2].operations) = 1
    /\ Txs[2].operations[1].type = "custom_json"
    /\ Txs[2].operations[1] # Txs[1].operations[1]
    /\ Len(b_calls) = 4

\* C29: process_block returns exactly the author/permlink urls of the comment
\* and vote operations of the block, and every such author was passed to
\* Accounts.dirty.
C29_DirtyUrls ==
    b_pc = "done" =>
        LET touched == {op \in UNION {{Txs[t].operations[o] :
                                         o \in 1..Len(Txs[t].operations)} :
                                      t \in 1..Len(Txs)} :
                            op.type \in {"comment", "vote"}}
        IN /\ b_result = {op.author \o <<"/">> \o op.permlink : op \in touched}
           /\ \A op \in touched : op.author \in accounts_dirty

\* process_block returned for a block with a comment, a vote and a
\* delete_comment.
C29_Witness ==
    /\ b_pc = "done"
    /\ b_result = {NameAlice \o <<"/">> \o PermOne, NameBob \o <<"/">> \o PermTwo}
    /\ Len(delete_ops) = 1
    /\ accounts_dirty = {NameAlice, NameBob}

\* ----------------------------------------------- claims: cache_missing_posts
\* C27: the cache build terminates for every finite set of posts, so every
\* call that finds a gap caches at least one more post before it calls
\* itself again; and when it returns, every post that is not deleted has a
\* row in hive_posts_cache.
C27_CacheBuildCompletes ==
    /\ [][cm_rounds' # cm_rounds => hive_posts_cache' # hive_posts_cache]_vars
    /\ [](cm_pc = "returned" =>
            \A i \in 1..Len(hive_posts) :
                ~hive_posts[i].is_deleted => i \in hive_posts_cache)

\* --------------------------------------------------- claims: community ops
\* C31: a setUserTitle op of an actor who may set titles, with a title that
\* is not empty, passes validation if and only if the title has at most 32
\* characters: one of exactly 32 is accepted and one of 33 is rejected.
C31_TitleAtMost32 ==
    [][(/\ c_op # NoCommunityOp
        /\ c_op' = NoCommunityOp
        /\ GetUserRole(hive_roles, 1, AccountsGetId(accounts, c_op.actor)) >= 4
        /\ c_op.raw.elems[2].dict["title"].val # <<>>)
       => LET title == c_op.raw.elems[2].dict["title"].val IN
          (c_last' # DroppedOutcome) <=> Len(title) <= 32]_vars

\* ---------------------------------------------- claims: stream_blocks, more
\* C32: lag_secs stays within [0, 3]; an empty fetch raises it by 0.25,
\* capped at 3, and leaves last and the queue as they were, so that the same
\* block number is fetched again; a successful fetch lowers it by 0.001,
\* floored at 0.
C32_LagWithinBounds ==
    /\ [](0 <= lag_secs /\ lag_secs <= 3000)
    /\ [][(s_pc = "got" /\ s_pc' # "got") =>
            IF block = Empty
              THEN /\ lag_secs' = (IF lag_secs + 250 > 3000 THEN 3000
                                   ELSE lag_secs + 250)
                   /\ last' = last
                   /\ queue' = queue
                   /\ s_pc' = "top"
              ELSE lag_secs' = (IF lag_secs - 1 < 0 THEN 0 ELSE lag_secs - 1)]_vars

\* After a successful fetch the lag has come back to its cap and the fetch
\* of the next block is empty once more.
C32_Witness ==
    /\ lag_secs = LagCap
    /\ last.num >= start_from
    /\ s_pc = "got"
    /\ block = Empty

\* ------------------------------------------------ claims: initial-sync batches
\* C33: a batch of an initial sync holds at most 1000 blocks: the lines of a
\* checkpoint file go to the Block Processor in chunks of 1000 (the last one
\* shorter), fast-sync asks for ranges of at most 1000 block numbers, and
\* each batch starts where the one before it ended.
C33_BatchesOf1000 ==
    [][bt_next' # bt_next =>
         /\ bt_batch'.lo = bt_batch.hi
         /\ bt_batch'.hi <= bt_end
         /\ bt_batch'.hi - bt_batch'.lo <= 1000
         /\ bt_mode = "file" =>
              bt_batch'.hi - bt_batch'.lo =
                 (IF bt_end - bt_next < 1000 THEN bt_end - bt_next ELSE 1000)
         /\ bt_mode = "steemd" =>
              bt_batch'.hi - bt_batch'.lo =
                 (IF bt_end - bt_next < 1000 THEN bt_end - bt_next ELSE 1000)]_vars

\* C33, amended: the chunks of a checkpoint file are of 250 lines (the last
\* one shorter), the ranges of fast-sync of 1000 block numbers (the last one
\* shorter); so no batch holds more than 1000 blocks, and each batch is the
\* half-open interval that starts where the one before it ended.
C33_BatchesOf250And1000 ==
    [][bt_next' # bt_next =>
         /\ bt_batch'.lo = bt_batch.hi
         /\ bt_batch'.hi <= bt_end
         /\ bt_next' = bt_batch'.hi
         /\ bt_batch'.hi - bt_batch'.lo <= 1000
         /\ bt_mode = "file" =>
              bt_batch'.hi - bt_batch'.lo =
                 (IF bt_end - bt_next < 250 THEN bt_end - bt_next ELSE 250)
         /\ bt_mode = "steemd" =>
              bt_batch'.hi - bt_batch'.lo =
                 (IF bt_end - bt_next < 1000 THEN bt_end - bt_next ELSE 1000)]_vars

\* A checkpoint file with more than 1000 lines left gave a chunk of 250 lines
\* that followed an earlier chunk.
C33_Witness ==
    /\ bt_mode = "file"
    /\ bt_batch.lo > 2
    /\ bt_batch.hi - bt_batch.lo = 250
    /\ bt_end - bt_batch.lo > 1000

\* ------------------------------------------------------ claims: __exec, more
\* C34: in __exec and in __exec_batch_with_retry the k-th retry of a call
\* comes after a sleep of k/10 seconds; a new call starts with no retry
\* counted; and a failure is retried whatever the number of failures before
\* it: the call never gives up by raising.
C34_LinearBackoff ==
    /\ [](\A k \in 1..Len(e_sleeps) : e_sleeps[k] = k * 100)
    /\ [](Len(e_sleeps) = e_tries)
    /\ [][(e_pc = "returned" /\ e_pc' = "call") => e_tries' = 0]_vars
    /\ [][(/\ e_pc = "call"
           /\ e_api \in {"get_block", "get_accounts", "_gdgp"} \/ e_workers = 1
           /\ e_log' # e_log)
          => LET o == e_log'[Len(e_log')] IN
             IF \/ o \in {"RPCError", "AssertionError"}
                \/ /\ o = "empty"
                   /\ e_api \in {"get_accounts", "_gdgp"}
               THEN /\ e_pc' = "call"
                    /\ e_tries' = e_tries + 1
                    /\ e_sleeps' = Append(e_sleeps, 100 * (e_tries + 1))
               ELSE e_pc' = "checked" /\ e_sleeps' = e_sleeps]_vars

\* A call returned after three retries, with sleeps of 0.1, 0.2 and 0.3 s.
C34_Witness ==
    /\ e_pc = "returned"
    /\ e_sleeps = <<100, 200, 300>>
    /\ e_tries = 3

\* ------------------------------------------------ claims: the loop assertion

\* C35: started with start_from - 1 <= head_block(), the assertion at the top
\* of the loop of stream_blocks never fails, whatever slots elapse and
\* whatever the fetches bring back: the number of the last accepted block
\* never exceeds head_num (it is below it whenever a block is fetched), and
\* head_num never decreases.
C35_LoopAssertionHolds ==
    /\ [](s_pc # "assert_failed")
    /\ [](last.num <= head_num)
    /\ [](s_pc \in {"fetch", "got"} => last.num < head_num)
    /\ [][head_num' >= head_num]_vars

C35_Witness ==
    /\ s_pc = "top"
    /\ last.num = head_num
    /\ yielded # <<>>
    /\ lag_secs > 0
    /\ head_num > start_head + 1

\* C36: the yielded blocks form a hash chain: the first one's `previous` is
\* the hash of block start_from - 1 read when the stream started, and every
\* later one's `previous` is the block_id of the block yielded before it;
\* once the stream has returned on a fork, the blocks left in the queue (at
\* most trail_blocks of them) are not among the yielded ones and nothing is
\* yielded any more.
C36_YieldedChainLinked ==
    /\ [](yielded # <<>> => yielded[1].previous = BlockId(0, start_from - 1))
    /\ [](\A i \in 1..(Len(yielded) - 1) :
              yielded[i + 1].previous = yielded[i].block_id)
    /\ [](s_pc = "fork_return" =>
              /\ Len(queue) <= trail_blocks
              /\ \A i \in 1..Len(queue) : \A j \in 1..Len(yielded) :
                     queue[i] # yielded[j])
    /\ [][(s_pc \in {"fork_return", "fork_raise"}) =>
              (yielded' = yielded /\ queue' = queue /\ s_pc' = s_pc)]_vars

C36_Witness ==
    /\ s_pc = "fork_return"
    /\ trail_blocks = 1
    /\ Len(queue) = 1
    /\ Len(yielded) = 1
    /\ yielded[1].previous = BlockId(0, start_from - 1)
    /\ queue[1].previous = yielded[1].block_id
    /\ forkAt # 0

\* ------------------------------------------------- claims: listen_steemd

\* C37: with trail_blocks > 0 listen_steemd goes on to fetch block n only
\* from the check of the gap, and only when the head read there is at least
\* trail_blocks and less than the aborting gap above n; a check that reads a
\* gap of the aborting size or more returns at once, block n uncommitted;
\* the store and the committed rows change only inside the transaction
\* opened after the fetch.  With trail_blocks = 0 the check passes whatever
\* the gap, so listen_steemd never returns: it runs on or raises.
C37_ListenTrailsOrAborts ==
    /\ [][(o_pc' = "listen_fetch" /\ o_pc # "listen_fetch") =>
             /\ o_pc = "listen_gap"
             /\ trail_blocks > 0 =>
                   /\ up_head - curr_block >= trail_blocks
                   /\ up_head - curr_block < ListenAbortGap]_vars
    /\ [][(/\ o_pc = "listen_gap"
           /\ trail_blocks > 0
           /\ up_head - curr_block >= ListenAbortGap
           /\ orchVars' # orchVars)
          => /\ o_pc' = "sync"
             /\ hive_blocks' = hive_blocks
             /\ durable' = durable
             /\ db_last_block(durable) = curr_block - 1]_vars
    /\ [][(hive_blocks' # hive_blocks \/ durable' # durable) =>
             /\ o_pc = "listen_trx"
             /\ BlockNum(listen_block) = curr_block]_vars
    /\ [](o_pc = "sync" => trail_blocks > 0)
    /\ [](trail_blocks = 0 => InListen(o_pc) \/ o_pc = "raised")

C37_Witness ==
    /\ o_pc = "listen_top"
    /\ trail_blocks = 2
    /\ Len(durable) >= 2
    /\ db_last_block(durable) = curr_block
    /\ up_head - curr_block = 2

C37_WitnessAbort ==
    /\ o_pc = "sync"
    /\ trail_blocks = 1
    /\ up_head - curr_block >= ListenAbortGap

C37_WitnessNoTrail ==
    /\ o_pc = "listen_trx"
    /\ trail_blocks = 0
    /\ up_head - curr_block >= ListenAbortGap

\* ------------------------------------------------- claims: the role ladder

\* C38: in every state reached by setRole ops, a setRole that passes
\* validation (and so is applied) names a role strictly below the role its
\* actor holds in that community at that moment; a row's role is
\* never raised to or above the highest role held in its community, and no
\* row becomes an owner row.
C38_NoPrivilegeEscalation ==
    /\ [](\A actor \in OpActors, community \in OpCommunities,
             account \in OpAccounts, role \in OpRoles :
             (/\ AccountsExists(accounts, actor)
              /\ ValidateSetRole(accounts, hive_communities, hive_roles,
                                 actor, community, account, role)) =>
                /\ role \in RoleNames
                /\ RoleId(role) <
                     GetUserRole(hive_roles,
                                 CommunityGetId(hive_communities, community),
                                 AccountsGetId(accounts, actor)))
    /\ [][/\ Len(hive_roles') = Len(hive_roles)
          /\ \A i \in 1..Len(hive_roles) :
                hive_roles'[i].role_id # hive_roles[i].role_id =>
                   /\ hive_roles'[i].role_id # ROLE_OWNER
                   /\ \E j \in 1..Len(hive_roles) :
                         /\ hive_roles[j].community_id = hive_roles[i].community_id
                         /\ hive_roles[j].role_id > hive_roles'[i].role_id
                         /\ hive_roles[j].role_id >= ROLE_MOD]_vars

C38_Witness ==
    /\ c_last = [kind |-> "setRole", ok |-> TRUE]
    /\ GetUserRole(hive_roles, 1, 2) = ROLE_ADMIN
    /\ GetUserRole(hive_roles, 1, 3) = ROLE_MOD
    /\ GetUserRole(hive_roles, 1, 1) = ROLE_OWNER

\* C39 (as claimed): whatever setRole ops, valid or not, have been handled,
\* every community has a role row with role owner (8).
C39_OwnerAlwaysRemains ==
    \A c \in 1..Len(hive_communities) :
        \E r \in 1..Len(hive_roles) :
            /\ hive_roles[r].community_id = hive_communities[c].id
            /\ hive_roles[r].role_id = ROLE_OWNER

\* C40 (as claimed): the step that applies a setUserTitle op sets the title
\* of exactly one role row of the op's community to the op's title and
\* leaves every role_id, and every other row, as it was.
C40_TitleSetOnOneRow ==
    [][(/\ c_op # NoCommunityOp
        /\ c_op' = NoCommunityOp
        /\ c_last' = [kind |-> "setUserTitle", ok |-> TRUE])
       => LET params == c_op.raw.elems[2].dict
              community_id == CommunityGetId(hive_communities,
                                             params["community"].val)
          IN \E r \in 1..Len(hive_roles) :
                /\ hive_roles[r].community_id = community_id
                /\ hive_roles' = [hive_roles EXCEPT
                                    ![r].title = Strip(params["title"].val)]]_vars

=============================================================================
